---- MODULE Spec2Model ----
(***************************************************************************)
(* Model of the FluxApp reconciler (kloudyuk/fluxer):                      *)
(*   internal/controller/fluxapp_controller.go        Reconcile, handle*   *)
(*   internal/controller/fluxapp_resource_manager.go  ResourceManager      *)
(* Strings are sequences of one-character strings, so that Split, Dir,     *)
(* Base, TrimPrefix and the Replacer are computed and not assumed.         *)
(***************************************************************************)
EXTENDS Integers, Sequences, FiniteSets, TLC

(***************************************************************************)
(* Strings                                                                 *)
(***************************************************************************)
Empty == << >>

\* s[i..j] (empty when j < i)
Sub(s, i, j) == IF j < i THEN Empty ELSE SubSeq(s, i, j)

\* strings.HasPrefix
HasPrefix(s, p) == Len(p) <= Len(s) /\ Sub(s, 1, Len(p)) = p

\* strings.TrimPrefix
TrimPrefix(s, p) == IF HasPrefix(s, p) THEN Sub(s, Len(p) + 1, Len(s)) ELSE s

\* strings.Index, 1-based; 0 when sep does not occur
Index(s, sep) ==
    LET hits == {i \in 1..(Len(s) - Len(sep) + 1) : Sub(s, i, i + Len(sep) - 1) = sep}
    IN IF hits = {} THEN 0 ELSE CHOOSE i \in hits : \A j \in hits : i <= j

\* strings.LastIndex of a one-character separator, 1-based; 0 when absent
LastIndex(s, c) ==
    LET hits == {i \in 1..Len(s) : s[i] = c}
    IN IF hits = {} THEN 0 ELSE CHOOSE i \in hits : \A j \in hits : j <= i

\* strings.Contains
Contains(s, sep) == Index(s, sep) # 0

\* strings.Split(s, sep) for a non-empty sep: the pieces between the
\* non-overlapping occurrences of sep, scanning from the left
RECURSIVE Split(_, _)
Split(s, sep) ==
    LET i == Index(s, sep)
    IN IF i = 0 THEN <<s>>
       ELSE <<Sub(s, 1, i - 1)>> \o Split(Sub(s, i + Len(sep), Len(s)), sep)

\* strings.Join of two elements
Join2(a, b, sep) == a \o sep \o b

\* strings.NewReplacer(".", "-", "/", "-").Replace
Replace(s) == [i \in 1..Len(s) |-> IF s[i] \in {".", "/"} THEN "-" ELSE s[i]]

\* drop trailing slashes
RECURSIVE StripSlashes(_)
StripSlashes(s) ==
    IF Len(s) > 0 /\ s[Len(s)] = "/" THEN StripSlashes(Sub(s, 1, Len(s) - 1)) ELSE s

\* path.Base: the last element; trailing slashes are removed first; "." for
\* the empty string and "/" for a string of slashes
PathBase(s) ==
    IF s = Empty THEN <<".">>
    ELSE LET t == StripSlashes(s)
         IN IF t = Empty THEN <<"/">>
            ELSE Sub(t, LastIndex(t, "/") + 1, Len(t))

\* path.Dir: all but the last element, cleaned (trailing slashes dropped);
\* "." when there is no directory part.  The strings of this model hold no
\* "." or ".." path elements and no doubled slashes, the other things
\* path.Clean rewrites.
PathDir(s) ==
    LET i == LastIndex(s, "/")
        d == StripSlashes(Sub(s, 1, i))
    IN IF i = 0 THEN <<".">>
       ELSE IF d = Empty THEN <<"/">>
       ELSE d

(***************************************************************************)
(* String constants of the program and the inputs of the model             *)
(***************************************************************************)
OciPrefix == <<"o","c","i",":","/","/">>
SchemeSep == <<":","/","/">>
ChartWord == <<"c","h","a","r","t">>
Dash == <<"-">>
Colon == <<":">>
Aws == <<"a","m","a","z","o","n","a","w","s",".","c","o","m">>
Azure == <<"a","z","u","r","e","c","r",".","i","o">>
Gcr == <<"g","c","r",".","i","o">>

\* parent names
NameA == <<"a">>
NameB == <<"b">>
\* spec.chart.repository values
RepoA == <<"o","c","i",":","/","/","g","c","r",".","i","o","/","p","/","a">>
RepoBad == <<"g","c","r",".","i","o","/","p","/","a">>
RepoEmpty == <<"o","c","i",":","/","/">>
RepoEsc == <<"o","c","i",":","/","/","g","/","%">>
RepoB == <<"o","c","i",":","/","/","g","c","r",".","i","o","/","p","/","b">>
RepoC == <<"o","c","i",":","/","/","g","c","r",".","i","o","/","q","/","a">>
\* ImagePolicy status.latestImage values
ImgV1 == <<"g","c","r",".","i","o","/","p","/","a",":","1">>
ImgV2 == <<"g","c","r",".","i","o","/","p","/","a",":","2">>
ImgPort == <<"h",":","5","/","a",":","1">>
\* spec.chart.version (a semver range)
AnyVersion == <<"*">>

(***************************************************************************)
(* providerFromURL                                                         *)
(***************************************************************************)
\* url.Parse fails on an invalid percent escape; the other inputs of this
\* model parse
UrlParseFails(s) == Contains(s, <<"%">>)

\* url.URL.Host of scheme://host/path; empty when there is no "//" authority
UrlHost(s) ==
    LET i == Index(s, SchemeSep)
        rest == Sub(s, i + Len(SchemeSep), Len(s))
        j == Index(rest, <<"/">>)
    IN IF i = 0 THEN Empty
       ELSE IF j = 0 THEN rest
       ELSE Sub(rest, 1, j - 1)

\* mutant: the cases of the switch in another order
providerFromURLGcrFirst(s) ==
    LET h == UrlHost(s)
    IN IF Contains(h, Gcr) THEN "gcp"
       ELSE IF Contains(h, Azure) THEN "azure"
       ELSE IF Contains(h, Aws) THEN "aws"
       ELSE "generic"

providerFromURL(s) ==
    LET h == UrlHost(s)
    IN IF Contains(h, Aws) THEN "aws"
       ELSE IF Contains(h, Azure) THEN "azure"
       ELSE IF Contains(h, Gcr) THEN "gcp"
       ELSE "generic"

(***************************************************************************)
(* ResourceManager naming functions (app is the in-memory FluxApp)         *)
(***************************************************************************)
ImageRepositoryName(app) == Join2(app.name, ChartWord, Dash)

\* mutant: the ImagePolicy gets a name of its own
ImagePolicyNameOwn(app) == Join2(app.name, <<"p","o","l","i","c","y">>, Dash)

ImagePolicyName(app) == ImageRepositoryName(app)

\* mutant: the HelmRepository keeps the name of the first repository
HelmRepositoryNameFixed(app) == <<"g","c","r","-","i","o","-","p">>

HelmRepositoryName(app) == Replace(TrimPrefix(app.status.repository, OciPrefix))

HelmReleaseName(app) == app.name

(***************************************************************************)
(* Bounds of the model                                                     *)
(***************************************************************************)
\* external writes (Flux controllers, users) in one behaviour
MaxEnv == 2
\* store calls that fail with an error other than NotFound in one behaviour
MaxFail == 1

(***************************************************************************)
(* Objects                                                                 *)
(***************************************************************************)
AllParents == {NameA, NameB}
Namespace == "default"

ImageRepositoryKind == "ImageRepository"
ImagePolicyKind == "ImagePolicy"
HelmRepositoryKind == "HelmRepository"
HelmReleaseKind == "HelmRelease"
Kinds == {ImageRepositoryKind, ImagePolicyKind, HelmRepositoryKind, HelmReleaseKind}

\* metav1.Condition of type Ready; NoCondition when the list has none
NoCondition == [status |-> "Absent", reason |-> "", message |-> ""]
ReadyTrue == [status |-> "True", reason |-> "ReconciliationSucceeded", message |-> "ok"]
ReadyFailed == [status |-> "False", reason |-> "InstallFailed", message |-> "failed"]
Progressing == [status |-> "False", reason |-> "Progressing", message |-> "HelmRelease is not ready"]

\* FluxAppStatus zero value
ZeroStatus == [repository |-> Empty, name |-> Empty, version |-> Empty, ready |-> NoCondition]

\* the FluxApp as the API server holds it
NoParent ==
    [exists |-> FALSE, ns |-> Namespace, deleting |-> FALSE, finalizer |-> FALSE,
     spec |-> [repository |-> Empty, version |-> Empty, targetNamespace |-> ""],
     status |-> ZeroStatus]

NewParent(repo, tns) ==
    [exists |-> TRUE, ns |-> Namespace, deleting |-> FALSE, finalizer |-> FALSE,
     spec |-> [repository |-> repo, version |-> AnyVersion, targetNamespace |-> tns],
     status |-> ZeroStatus]

\* the in-memory copy the reconciler works on
AppOf(p, obj) ==
    [name |-> p, ns |-> obj.ns, deleting |-> obj.deleting, finalizer |-> obj.finalizer,
     spec |-> obj.spec, status |-> obj.status]

NoApp == AppOf(Empty, NoParent)

\* zero value of each child kind's Spec struct (the fields the reconciler sets)
ZeroSpec(k) ==
    CASE k = ImageRepositoryKind -> [image |-> Empty, interval |-> "", provider |-> ""]
      [] k = ImagePolicyKind ->
            [imageRepositoryRefName |-> Empty, imageRepositoryRefNamespace |-> "",
             semverRange |-> Empty]
      [] k = HelmRepositoryKind -> [url |-> Empty, type |-> "", provider |-> ""]
      [] k = HelmReleaseKind ->
            [chart |-> Empty, version |-> Empty, sourceRefKind |-> "",
             sourceRefName |-> Empty, sourceRefNamespace |-> "", interval |-> "",
             releaseName |-> Empty, targetNamespace |-> "", driftDetection |-> "",
             install |-> "", upgrade |-> "", suspend |-> FALSE]

\* the part of a child's status the reconciler reads
ZeroChildStatus == [latestImage |-> Empty, ready |-> NoCondition]

\* a zero-value object of kind k, as `&imagev1.ImageRepository{}` etc.
ZeroChild(k) ==
    [kind |-> k, ns |-> "", name |-> Empty, owners |-> {}, spec |-> ZeroSpec(k),
     status |-> ZeroChildStatus]

NoPatch == [kind |-> "nil"]
NoResource == [obj |-> NoPatch, patch |-> NoPatch]

Key(o) == <<o.kind, o.ns, o.name>>

VARIABLES
    parent,      \* [AllParents -> FluxApp object in the API server or NoParent]
    store,       \* the child objects in the API server (a set, one per Key)
    pc,          \* [AllParents -> position of the running Reconcile]
    app,         \* [AllParents -> the in-memory FluxApp of the invocation]
    seen,        \* [AllParents -> the FluxApp as the invocation fetched it]
    base,        \* [AllParents -> status of app.DeepCopy(), the status patch base]
    mr,          \* [AllParents -> the managedResource of the running stage]
    result,      \* [AllParents -> (ctrl.Result, error) of the last return]
    ops,         \* [AllParents -> the store calls of the invocation, in order]
    envLeft,     \* external writes left
    failLeft,    \* injected store failures left
    mark,        \* [AllParents -> how the running invocation started]
    arg,         \* the arguments of a function called by itself
    ret          \* what it returned

vars == <<parent, store, pc, app, seen, base, mr, result, ops, envLeft, failLeft, mark,
          arg, ret>>

NoArg == [fn |-> ""]
NoRet == <<"none">>

\* mark, written when an invocation starts: env0 is envLeft at that moment,
\* children the store at that moment, and again says that the invocation
\* before it returned success from the end of the chain and that nothing
\* outside the reconciler has written since that invocation started;
\* recover says that the invocation before it was aborted and that nothing
\* outside the reconciler has written since that one started; before is the
\* store when the first of the aborted invocations it recovers from started
\* (the store at its own start when it recovers from none)
NoMark == [env0 |-> 0, again |-> FALSE, children |-> {}, recover |-> FALSE, before |-> {}]

Lookup(k, ns, n) == {o \in store : Key(o) = <<k, ns, n>>}

NoResult == [requeue |-> FALSE, err |-> "none"]
Return(rq, e) == [requeue |-> rq, err |-> e]

\* one entry of ops: the call, the object it names, the error it answered,
\* the fields a write changes and the status of the object a Get returned
Op(name, k, ns, n, e, d, st) ==
    [op |-> name, kind |-> k, ns |-> ns, name |-> n, err |-> e, diff |-> d, status |-> st]

(***************************************************************************)
(* ResourceManager.Get and ResourceManager.Update                          *)
(***************************************************************************)
\* the key.Name switch of ResourceManager.Get
ChildName(k, a) ==
    CASE k = ImageRepositoryKind -> ImageRepositoryName(a)
      [] k = ImagePolicyKind -> ImagePolicyName(a)
      [] k = HelmRepositoryKind -> HelmRepositoryName(a)
      [] k = HelmReleaseKind -> HelmReleaseName(a)

\* controllerutil.SetControllerReference(app, mr, scheme) on a fresh object
SetControllerReference(a, o) == [o EXCEPT !.owners = {a.name}]

\* mutant: the patch base is taken after the if, for a fresh object too
RMGetAlwaysBase(a, k, found) ==
    LET o == IF found = {}
             THEN SetControllerReference(a,
                      [ZeroChild(k) EXCEPT !.name = ChildName(k, a), !.ns = a.ns])
             ELSE CHOOSE x \in found : TRUE
    IN [obj |-> o, patch |-> o]

\* ResourceManager.Get once rm.c.Get has answered; found is the set holding
\* the stored object, or {} for NotFound.  Not found: the empty object gets
\* name, namespace and controller reference and no patch.  Found: the patch
\* base is a deep copy of the object as fetched.
RMGet(a, k, found) ==
    IF found = {}
    THEN [obj |-> SetControllerReference(a,
                     [ZeroChild(k) EXCEPT !.name = ChildName(k, a), !.ns = a.ns]),
          patch |-> NoPatch]
    ELSE LET o == CHOOSE x \in found : TRUE
         IN [obj |-> o, patch |-> o]

\* mutant: Update creates whatever Get found
UsesCreateAlways(res) == TRUE

\* ResourceManager.Update: Create when no patch was recorded, else Patch
UsesCreate(res) == res.patch = NoPatch

\* mutant: the whole spec is sent, as an Update would
SpecDiffAll(o, b) == DOMAIN o.spec

\* the fields of the JSON merge patch client.MergeFrom(b) computes for o
SpecDiff(o, b) == {f \in DOMAIN o.spec : o.spec[f] # b.spec[f]}

\* mutant: the object is written whole, as the reconciler holds it
PatchedWhole(cur, o, b) == [cur EXCEPT !.spec = o.spec, !.status = o.status, !.owners = o.owners]

\* what the API server holds after rm.c.Patch(o, MergeFrom(b)): the fields of
\* the diff are written onto the object it holds now (cur)
Patched(cur, o, b) ==
    [cur EXCEPT !.spec = [f \in DOMAIN cur.spec |->
                             IF f \in SpecDiff(o, b) THEN o.spec[f] ELSE cur.spec[f]],
                !.owners = IF o.owners # b.owners THEN o.owners ELSE cur.owners]

(***************************************************************************)
(* The stages: the code of each handle* function between its Get and its   *)
(* Update.  Each returns the error, the FluxApp and the child object.      *)
(***************************************************************************)
Built(e, a, o) == [err |-> e, app |-> a, obj |-> o]

\* mutant: the status is not set before the Update
BuildImageRepositoryNoStatus(a, o) ==
    LET repo == a.spec.repository
        parts == Split(repo, SchemeSep)
        image == parts[2]
        spec == [image |-> image, interval |-> "1m", provider |-> providerFromURL(repo)]
    IN IF UrlParseFails(repo) THEN Built("InvalidURL", a, o)
       ELSE IF Len(parts) # 2 THEN Built("InvalidRepository", a, o)
       ELSE Built("nil", a, [o EXCEPT !.spec = spec])

\* mutant: the repository is not validated and the image is what follows
\* the last "://"
BuildImageRepositoryUnchecked(a, o) ==
    LET repo == a.spec.repository
        parts == Split(repo, SchemeSep)
        image == parts[Len(parts)]
        spec == [image |-> image, interval |-> "1m", provider |-> providerFromURL(repo)]
    IN Built("nil",
             [a EXCEPT !.status.repository = OciPrefix \o PathDir(image),
                       !.status.name = PathBase(image)],
             [o EXCEPT !.spec = spec])

\* handleImageRepository
BuildImageRepository(a, o) ==
    LET repo == a.spec.repository
        parts == Split(repo, SchemeSep)
        image == parts[2]
        spec == [image |-> image, interval |-> "1m", provider |-> providerFromURL(repo)]
    IN IF UrlParseFails(repo) THEN Built("InvalidURL", a, o)
       ELSE IF Len(parts) # 2 THEN Built("InvalidRepository", a, o)
       ELSE Built("nil",
                  IF image # Empty
                  THEN [a EXCEPT !.status.repository = OciPrefix \o PathDir(image),
                                 !.status.name = PathBase(image)]
                  ELSE a,
                  [o EXCEPT !.spec = spec])

\* mutant: the version is cleared when the ImagePolicy reports nothing
BuildImagePolicyReset(a, o) ==
    LET spec == [imageRepositoryRefName |-> ImagePolicyName(a),
                 imageRepositoryRefNamespace |-> a.ns,
                 semverRange |-> a.spec.version]
        parts == Split(o.status.latestImage, Colon)
        o2 == [o EXCEPT !.spec = spec]
    IN IF o.status.latestImage # Empty
       THEN IF Len(parts) # 2 THEN Built("InvalidImageRef", a, o2)
            ELSE Built("nil", [a EXCEPT !.status.version = parts[2]], o2)
       ELSE Built("nil", [a EXCEPT !.status.version = Empty], o2)

\* mutant: the version is the last segment, whatever the segment count
BuildImagePolicyLenient(a, o) ==
    LET spec == [imageRepositoryRefName |-> ImagePolicyName(a),
                 imageRepositoryRefNamespace |-> a.ns,
                 semverRange |-> a.spec.version]
        parts == Split(o.status.latestImage, Colon)
        o2 == [o EXCEPT !.spec = spec]
    IN IF o.status.latestImage # Empty
       THEN Built("nil", [a EXCEPT !.status.version = parts[Len(parts)]], o2)
       ELSE Built("nil", a, o2)

\* handleImagePolicy
BuildImagePolicy(a, o) ==
    LET spec == [imageRepositoryRefName |-> ImagePolicyName(a),
                 imageRepositoryRefNamespace |-> a.ns,
                 semverRange |-> a.spec.version]
        parts == Split(o.status.latestImage, Colon)
        o2 == [o EXCEPT !.spec = spec]
    IN IF o.status.latestImage # Empty
       THEN IF Len(parts) # 2 THEN Built("InvalidImageRef", a, o2)
            ELSE Built("nil", [a EXCEPT !.status.version = parts[2]], o2)
       ELSE Built("nil", a, o2)

\* handleHelmRepository
BuildHelmRepository(a, o) ==
    LET url == a.status.repository
        spec == [url |-> url, type |-> "oci", provider |-> providerFromURL(url)]
    IN IF UrlParseFails(url) THEN Built("InvalidURL", a, o)
       ELSE Built("nil", a, [o EXCEPT !.spec = spec])

\* mutant: the fallback is set whatever the HelmRelease reports
MirrorAlwaysFallback(o) == Progressing

\* mutant: SetMirror without the fallback option
MirrorNoFallback(o) == o.status.ready

\* conditions.SetMirror(app, Ready, helmRelease, WithFallbackValue(false,
\* Progressing, "HelmRelease is not ready")): the Ready condition of the
\* HelmRelease, or the fallback when it has none
Mirror(o) == IF o.status.ready = NoCondition THEN Progressing ELSE o.status.ready

\* handleHelmRelease after the gate
BuildHelmRelease(a, o) ==
    LET targetNS == IF a.spec.targetNamespace = "" THEN a.ns ELSE a.spec.targetNamespace
        spec == [chart |-> a.status.name, version |-> a.status.version,
                 sourceRefKind |-> "HelmRepository",
                 sourceRefName |-> HelmRepositoryName(a),
                 sourceRefNamespace |-> a.ns, interval |-> "1m",
                 releaseName |-> a.name, targetNamespace |-> targetNS,
                 driftDetection |-> "enabled,ignore:/spec/replicas",
                 install |-> "replace,crds:CreateReplace,createNamespace",
                 upgrade |-> "crds:CreateReplace",
                 \* not named in the struct literal: the zero value
                 suspend |-> FALSE]
    IN Built("nil", [a EXCEPT !.status.ready = Mirror(o)], [o EXCEPT !.spec = spec])

Build(k, a, o) ==
    CASE k = ImageRepositoryKind -> BuildImageRepository(a, o)
      [] k = ImagePolicyKind -> BuildImagePolicy(a, o)
      [] k = HelmRepositoryKind -> BuildHelmRepository(a, o)
      [] k = HelmReleaseKind -> BuildHelmRelease(a, o)

\* mutant: handleHelmRelease has no gate
GateNever(a) == FALSE

\* mutant: the gate does not test the version
GateNoVersion(a) == a.status.repository = Empty \/ a.status.name = Empty

\* the requeue condition at the head of handleHelmRelease
Gate(a) ==
    a.status.repository = Empty \/ a.status.name = Empty \/ a.status.version = Empty

\* mutant: the HelmRepository is handled before the ImagePolicy
NextKindSourceFirst(k) ==
    CASE k = ImageRepositoryKind -> HelmRepositoryKind
      [] k = HelmRepositoryKind -> ImagePolicyKind
      [] k = ImagePolicyKind -> HelmReleaseKind
      [] k = HelmReleaseKind -> ""

\* Reconcile's chain: the kind handled after k; "" after the last
NextKind(k) ==
    CASE k = ImageRepositoryKind -> ImagePolicyKind
      [] k = ImagePolicyKind -> HelmRepositoryKind
      [] k = HelmRepositoryKind -> HelmReleaseKind
      [] k = HelmReleaseKind -> ""

\* mutant: Reconcile returns once the finalizer is persisted
AfterAddFinalizerReturn == <<"done", "">>

\* where Reconcile goes once the finalizer has been added and persisted
AfterAddFinalizer == <<"get", ImageRepositoryKind>>

\* mutant: the status patch is deferred before the finalizer is written
AfterFinalizerErrorPatch == <<"patchStatus", "">>

\* where Reconcile goes when the update that adds the finalizer failed: it
\* returns the error, and the status patch is not yet deferred
AfterFinalizerError == <<"done", "">>

\* mutant: the handler's error is dropped and the chain goes on
AfterStageSwallow(k, a, e) ==
    IF NextKind(k) = "" THEN [pc |-> <<"patchStatus", "">>, result |-> Return(FALSE, "nil")]
    ELSE [pc |-> <<"get", NextKind(k)>>, result |-> NoResult]

\* mutant: handleHelmRepository returns the requeue when the resolved
\* repository is empty
AfterStageSkipSource(k, a, e) ==
    IF e # "nil" THEN [pc |-> <<"patchStatus", "">>, result |-> Return(FALSE, e)]
    ELSE IF NextKind(k) = "" THEN [pc |-> <<"patchStatus", "">>, result |-> Return(FALSE, "nil")]
    ELSE IF NextKind(k) = HelmRepositoryKind /\ a.status.repository = Empty
         THEN [pc |-> <<"patchStatus", "">>, result |-> Return(TRUE, "nil")]
    ELSE IF NextKind(k) = HelmReleaseKind /\ Gate(a)
         THEN [pc |-> <<"patchStatus", "">>, result |-> Return(TRUE, "nil")]
    ELSE [pc |-> <<"get", NextKind(k)>>, result |-> NoResult]

\* mutant: the status patch is the last statement of Reconcile and not a
\* defer, so the return of an error or of the requeue skips it
AfterStageNoDefer(k, a, e) ==
    IF e # "nil" THEN [pc |-> <<"done", "">>, result |-> Return(FALSE, e)]
    ELSE IF NextKind(k) = "" THEN [pc |-> <<"patchStatus", "">>, result |-> Return(FALSE, "nil")]
    ELSE IF NextKind(k) = HelmReleaseKind /\ Gate(a)
         THEN [pc |-> <<"done", "">>, result |-> Return(TRUE, "nil")]
    ELSE [pc |-> <<"get", NextKind(k)>>, result |-> NoResult]

\* where Reconcile goes after the handler of kind k has returned e and the
\* FluxApp is a: the return of the error, the next handler's Get,
\* handleHelmRelease's requeue, or the final return
AfterStage(k, a, e) ==
    IF e # "nil" THEN [pc |-> <<"patchStatus", "">>, result |-> Return(FALSE, e)]
    ELSE IF NextKind(k) = "" THEN [pc |-> <<"patchStatus", "">>, result |-> Return(FALSE, "nil")]
    ELSE IF NextKind(k) = HelmReleaseKind /\ Gate(a)
         THEN [pc |-> <<"patchStatus", "">>, result |-> Return(TRUE, "nil")]
    ELSE [pc |-> <<"get", NextKind(k)>>, result |-> NoResult]

(***************************************************************************)
(* Reconcile, one action per store call; each action runs the code from    *)
(* the answer of its call up to the next call (or the return)              *)
(***************************************************************************)
Log(p, o) == ops' = [ops EXCEPT ![p] = Append(@, o)]

Goto(p, where) == pc' = [pc EXCEPT ![p] = where]

\* the invocation that has just returned ran the whole chain with success
RanWholeChain(p) ==
    /\ pc[p][1] = "done"
    /\ result[p] = Return(FALSE, "nil")
    /\ \E i \in DOMAIN ops[p] :
          ops[p][i].kind = HelmReleaseKind /\ ops[p][i].op \in {"create", "patch"}

Started(p) ==
    [env0 |-> envLeft, again |-> RanWholeChain(p) /\ mark[p].env0 = envLeft,
     children |-> store,
     recover |-> result[p].err = "crashed" /\ mark[p].env0 = envLeft,
     before |-> IF result[p].err = "crashed" /\ mark[p].env0 = envLeft
                THEN mark[p].before ELSE store]

\* mutant: r.Update writes over a FluxApp that changed since it was fetched
UpdateErrorNoConflict(p) ==
    IF ~parent[p].exists THEN "NotFound" ELSE "nil"

\* r.Update(ctx, app) answers Conflict when the object changed since it was
\* fetched (resourceVersion) and NotFound when it is gone
UpdateError(p) ==
    IF ~parent[p].exists THEN "NotFound"
    ELSE IF AppOf(p, parent[p]) # seen[p] THEN "Conflict"
    ELSE "nil"

\* mutant: the return that ends the deletion branch is missing
AfterGetAppFallThrough(a) ==
    IF a.deleting /\ a.finalizer THEN <<"removeFinalizer", "">>
    ELSE IF ~a.finalizer THEN <<"addFinalizer", "">>
    ELSE <<"get", ImageRepositoryKind>>

\* mutant: the deletion timestamp is not tested
AfterGetAppNoTimestamp(a) ==
    IF a.finalizer THEN <<"removeFinalizer", "">> ELSE <<"addFinalizer", "">>

\* mutant: the deletion branch returns without removing the finalizer
AfterGetAppNoRemoval(a) ==
    IF a.deleting THEN <<"done", "">>
    ELSE IF ~a.finalizer THEN <<"addFinalizer", "">>
    ELSE <<"get", ImageRepositoryKind>>

\* the branch Reconcile takes on the FluxApp it fetched
AfterGetApp(a) ==
    IF a.deleting
    THEN IF a.finalizer THEN <<"removeFinalizer", "">> ELSE <<"done", "">>
    ELSE IF ~a.finalizer THEN <<"addFinalizer", "">>
    ELSE <<"get", ImageRepositoryKind>>

\* r.Get(ctx, req.NamespacedName, app) fails with an error other than NotFound
GetAppFails(p) ==
    /\ pc[p][1] \in {"idle", "done"}
    /\ failLeft > 0
    /\ failLeft' = failLeft - 1
    /\ ops' = [ops EXCEPT ![p] = <<Op("getApp", "FluxApp", Namespace, p, "StoreError", {}, ZeroChildStatus)>>]
    /\ result' = [result EXCEPT ![p] = Return(FALSE, "StoreError")]
    /\ app' = [app EXCEPT ![p] = NoApp]
    /\ seen' = [seen EXCEPT ![p] = NoApp]
    /\ base' = [base EXCEPT ![p] = ZeroStatus]
    /\ mr' = [mr EXCEPT ![p] = NoResource]
    /\ Goto(p, <<"done", "">>)
    /\ mark' = [mark EXCEPT ![p] = Started(p)]
    /\ UNCHANGED <<arg, ret, parent, store, envLeft>>

\* r.Get answers NotFound: IgnoreNotFound, return without error
GetAppNotFound(p) ==
    /\ pc[p][1] \in {"idle", "done"}
    /\ ~parent[p].exists
    /\ ops' = [ops EXCEPT ![p] = <<Op("getApp", "FluxApp", Namespace, p, "NotFound", {}, ZeroChildStatus)>>]
    /\ result' = [result EXCEPT ![p] = Return(FALSE, "nil")]
    /\ app' = [app EXCEPT ![p] = NoApp]
    /\ seen' = [seen EXCEPT ![p] = NoApp]
    /\ base' = [base EXCEPT ![p] = ZeroStatus]
    /\ mr' = [mr EXCEPT ![p] = NoResource]
    /\ Goto(p, <<"done", "">>)
    /\ mark' = [mark EXCEPT ![p] = Started(p)]
    /\ UNCHANGED <<arg, ret, parent, store, envLeft, failLeft>>

\* r.Get finds the FluxApp
GetApp(p) ==
    /\ pc[p][1] \in {"idle", "done"}
    /\ parent[p].exists
    /\ LET a == AppOf(p, parent[p])
       IN /\ ops' = [ops EXCEPT ![p] = <<Op("getApp", "FluxApp", a.ns, p, "nil", {}, ZeroChildStatus)>>]
          /\ app' = [app EXCEPT ![p] = a]
          /\ seen' = [seen EXCEPT ![p] = a]
          /\ base' = [base EXCEPT ![p] = a.status]
          /\ Goto(p, AfterGetApp(a))
          /\ result' = [result EXCEPT ![p] =
                            IF AfterGetApp(a)[1] = "done" THEN Return(FALSE, "nil")
                            ELSE NoResult]
    /\ mr' = [mr EXCEPT ![p] = NoResource]
    /\ mark' = [mark EXCEPT ![p] = Started(p)]
    /\ UNCHANGED <<arg, ret, parent, store, envLeft, failLeft>>

\* controllerutil.RemoveFinalizer; r.Update
RemoveFinalizer(p) ==
    /\ pc[p][1] = "removeFinalizer"
    /\ \E e \in {UpdateError(p)} \cup (IF failLeft > 0 THEN {"StoreError"} ELSE {}) :
          /\ failLeft' = IF e = "StoreError" THEN failLeft - 1 ELSE failLeft
          /\ Log(p, Op("updateApp", "FluxApp", app[p].ns, p, e, {"finalizer-"}, ZeroChildStatus))
          /\ app' = [app EXCEPT ![p].finalizer = FALSE]
          /\ parent' = IF e = "nil" THEN [parent EXCEPT ![p].finalizer = FALSE] ELSE parent
          /\ result' = [result EXCEPT ![p] = Return(FALSE, e)]
    /\ Goto(p, <<"done", "">>)
    /\ UNCHANGED <<arg, ret, store, seen, base, mr, envLeft, mark>>

\* controllerutil.AddFinalizer; r.Update; on success the chain follows
AddFinalizer(p) ==
    /\ pc[p][1] = "addFinalizer"
    /\ \E e \in {UpdateError(p)} \cup (IF failLeft > 0 THEN {"StoreError"} ELSE {}) :
          /\ failLeft' = IF e = "StoreError" THEN failLeft - 1 ELSE failLeft
          /\ Log(p, Op("updateApp", "FluxApp", app[p].ns, p, e, {"finalizer+"}, ZeroChildStatus))
          /\ app' = [app EXCEPT ![p].finalizer = TRUE]
          /\ IF e = "nil"
             THEN /\ parent' = [parent EXCEPT ![p].finalizer = TRUE]
                  /\ Goto(p, AfterAddFinalizer)
                  /\ UNCHANGED result
             ELSE /\ result' = [result EXCEPT ![p] = Return(FALSE, e)]
                  /\ Goto(p, AfterFinalizerError)
                  /\ UNCHANGED parent
    /\ base' = [base EXCEPT ![p] = app[p].status]
    /\ UNCHANGED <<arg, ret, store, seen, mr, envLeft, mark>>

\* ResourceManager.Get of the stage's kind fails with an error other than
\* NotFound: the handler returns it and Reconcile returns it
GetChildFails(p) ==
    /\ pc[p][1] = "get"
    /\ failLeft > 0
    /\ failLeft' = failLeft - 1
    /\ Log(p, Op("get", pc[p][2], app[p].ns, ChildName(pc[p][2], app[p]), "StoreError", {},
                ZeroChildStatus))
    /\ result' = [result EXCEPT ![p] = AfterStage(pc[p][2], app[p], "StoreError").result]
    /\ Goto(p, AfterStage(pc[p][2], app[p], "StoreError").pc)
    /\ UNCHANGED <<arg, ret, parent, store, app, seen, base, mr, envLeft, mark>>

\* ResourceManager.Get under an empty name (an empty resolved repository):
\* a client that asks the API server answers that the name may not be empty,
\* one that reads the informer cache answers NotFound (GetChild)
GetChildUnnamed(p) ==
    /\ pc[p][1] = "get"
    /\ ChildName(pc[p][2], app[p]) = Empty
    /\ Log(p, Op("get", pc[p][2], app[p].ns, Empty, "InvalidName", {}, ZeroChildStatus))
    /\ result' = [result EXCEPT ![p] = AfterStage(pc[p][2], app[p], "InvalidName").result]
    /\ Goto(p, AfterStage(pc[p][2], app[p], "InvalidName").pc)
    /\ UNCHANGED <<arg, ret, parent, store, app, seen, base, mr, envLeft, failLeft, mark>>

\* ResourceManager.Get of the stage's kind answers (found or NotFound), then
\* the handler builds the spec and projects the status up to its Update
GetChild(p) ==
    /\ pc[p][1] = "get"
    /\ LET k == pc[p][2]
           a == app[p]
           n == ChildName(k, a)
           found == Lookup(k, a.ns, n)
           res == RMGet(a, k, found)
           b == Build(k, a, res.obj)
       IN /\ Log(p, Op("get", k, a.ns, n, IF found = {} THEN "NotFound" ELSE "nil", {},
                       res.obj.status))
          /\ app' = [app EXCEPT ![p] = b.app]
          /\ mr' = [mr EXCEPT ![p] = [res EXCEPT !.obj = b.obj]]
          /\ IF b.err = "nil"
             THEN /\ Goto(p, <<"update", k>>)
                  /\ UNCHANGED result
             ELSE /\ Goto(p, AfterStage(k, b.app, b.err).pc)
                  /\ result' = [result EXCEPT ![p] = AfterStage(k, b.app, b.err).result]
    /\ UNCHANGED <<arg, ret, parent, store, seen, base, envLeft, failLeft, mark>>

\* what the API server's validation may answer: whether an ImageRepository
\* with an empty image is admitted depends on the CRD installed
Rejections(res) ==
    IF res.obj.kind = ImageRepositoryKind /\ res.obj.spec.image = Empty THEN {"Invalid"} ELSE {}

\* the error rm.c.Create or rm.c.Patch answers by itself; an object without
\* a name is never admitted
CommitError(res) ==
    IF res.obj.name = Empty THEN "InvalidName"
    ELSE IF UsesCreate(res)
    THEN IF Lookup(res.obj.kind, res.obj.ns, res.obj.name) # {} THEN "AlreadyExists" ELSE "nil"
    ELSE IF Lookup(res.obj.kind, res.obj.ns, res.obj.name) = {} THEN "NotFound" ELSE "nil"

\* the status of the object rm.c.Create or rm.c.Patch answered with: the
\* object as the API server holds it after the write
Answered(res, cur, e) ==
    IF e # "nil" \/ UsesCreate(res) THEN res.obj.status
    ELSE (CHOOSE c \in cur : TRUE).status

\* ResourceManager.Update, then Reconcile's dispatch on the handler's result
UpdateChild(p) ==
    /\ pc[p][1] = "update"
    /\ LET k == pc[p][2]
           res == mr[p]
           o == res.obj
           cur == Lookup(o.kind, o.ns, o.name)
       IN \E e \in {CommitError(res)} \cup Rejections(res) \cup
                   (IF failLeft > 0 THEN {"StoreError"} ELSE {}) :
             /\ failLeft' = IF e = "StoreError" THEN failLeft - 1 ELSE failLeft
             /\ Log(p, Op(IF UsesCreate(res) THEN "create" ELSE "patch", o.kind, o.ns, o.name, e,
                          IF UsesCreate(res) THEN {} ELSE SpecDiff(o, res.patch),
                          Answered(res, cur, e)))
             /\ store' = IF e # "nil" THEN store
                          ELSE IF UsesCreate(res) THEN store \cup {o}
                          ELSE (store \ cur) \cup {Patched(c, o, res.patch) : c \in cur}
             /\ Goto(p, AfterStage(k, app[p], e).pc)
             /\ result' = [result EXCEPT ![p] = AfterStage(k, app[p], e).result]
    /\ mr' = [mr EXCEPT ![p] = NoResource]
    /\ UNCHANGED <<arg, ret, parent, app, seen, base, envLeft, mark>>

\* the fields of the merge patch MergeFrom(app.DeepCopy()) computes for status
StatusDiff(a, b) == {f \in DOMAIN b : a.status[f] # b[f]}

\* mutant: the deferred function returns the error of the status patch
AfterStatusPatchSurfaced(res, e) == IF e # "nil" THEN Return(FALSE, e) ELSE res

\* what Reconcile returns once the deferred function has run: the deferred
\* function logs the error of the patch and assigns no return value
AfterStatusPatch(res, e) == res

\* the deferred r.Status().Patch(ctx, app, p); its error is only logged
PatchStatus(p) ==
    /\ pc[p][1] = "patchStatus"
    /\ LET d == StatusDiff(app[p], base[p])
       IN \E e \in {IF parent[p].exists THEN "nil" ELSE "NotFound"} \cup
                   (IF failLeft > 0 THEN {"StoreError"} ELSE {}) :
             /\ failLeft' = IF e = "StoreError" THEN failLeft - 1 ELSE failLeft
             /\ Log(p, Op("patchStatus", "FluxApp", app[p].ns, p, e, d, ZeroChildStatus))
             /\ parent' = IF e = "nil"
                          THEN [parent EXCEPT ![p].status =
                                   [f \in DOMAIN @ |-> IF f \in d THEN app[p].status[f] ELSE @[f]]]
                          ELSE parent
             /\ result' = [result EXCEPT ![p] = AfterStatusPatch(@, e)]
    /\ Goto(p, <<"done", "">>)
    /\ UNCHANGED <<arg, ret, store, app, seen, base, mr, envLeft, mark>>

Reconcile(p) ==
    \/ GetAppFails(p)
    \/ GetAppNotFound(p)
    \/ GetApp(p)
    \/ RemoveFinalizer(p)
    \/ AddFinalizer(p)
    \/ GetChildFails(p)
    \/ GetChildUnnamed(p)
    \/ GetChild(p)
    \/ UpdateChild(p)
    \/ PatchStatus(p)

(***************************************************************************)
(* The environment: the Flux controllers, the user and the API server      *)
(***************************************************************************)
LatestImages == {Empty, ImgV1, ImgV2, ImgPort}

Replaced(o, n) == (store \ {o}) \cup {n}

\* the image-reflector-controller writes ImagePolicy status.latestImage
PolicyReports ==
    /\ envLeft > 0
    /\ \E o \in store : \E v \in LatestImages :
          /\ o.kind = ImagePolicyKind
          /\ v # o.status.latestImage
          /\ store' = Replaced(o, [o EXCEPT !.status.latestImage = v])
    /\ envLeft' = envLeft - 1
    /\ UNCHANGED <<arg, ret, parent, pc, app, seen, base, mr, result, ops, failLeft, mark>>

\* the helm-controller writes the HelmRelease's Ready condition
ReleaseReports ==
    /\ envLeft > 0
    /\ \E o \in store : \E c \in {ReadyTrue, ReadyFailed} :
          /\ o.kind = HelmReleaseKind
          /\ c # o.status.ready
          /\ store' = Replaced(o, [o EXCEPT !.status.ready = c])
    /\ envLeft' = envLeft - 1
    /\ UNCHANGED <<arg, ret, parent, pc, app, seen, base, mr, result, ops, failLeft, mark>>

\* the user suspends the HelmRelease (spec.suspend, a field the reconciler
\* does not name)
UserSuspends ==
    /\ envLeft > 0
    /\ \E o \in store :
          /\ o.kind = HelmReleaseKind
          /\ ~o.spec.suspend
          /\ store' = Replaced(o, [o EXCEPT !.spec.suspend = TRUE])
    /\ envLeft' = envLeft - 1
    /\ UNCHANGED <<arg, ret, parent, pc, app, seen, base, mr, result, ops, failLeft, mark>>

\* a spec no FluxApp asks for, as another client would have written it
ForeignSpec(k) ==
    CASE k = ImageRepositoryKind -> [ZeroSpec(k) EXCEPT !.interval = "5m"]
      [] k = ImagePolicyKind -> [ZeroSpec(k) EXCEPT !.semverRange = <<"1">>]
      [] k = HelmRepositoryKind -> [ZeroSpec(k) EXCEPT !.type = "default"]
      [] k = HelmReleaseKind -> [ZeroSpec(k) EXCEPT !.interval = "5m"]

\* the objects another client may create: the kinds and names the
\* reconciler uses for FluxApp "a" with repository RepoA
ExternalObjects ==
    {<<ImageRepositoryKind, <<"a","-","c","h","a","r","t">> >>,
     <<ImagePolicyKind, <<"a","-","c","h","a","r","t">> >>,
     <<HelmRepositoryKind, <<"g","c","r","-","i","o","-","p">> >>,
     <<HelmReleaseKind, <<"a">> >>}

\* another client creates such an object, without an owner reference
ExternalCreate ==
    /\ envLeft > 0
    /\ \E x \in ExternalObjects :
          /\ Lookup(x[1], Namespace, x[2]) = {}
          /\ store' = store \cup
                {[ZeroChild(x[1]) EXCEPT !.name = x[2], !.ns = Namespace,
                                         !.spec = ForeignSpec(x[1])]}
    /\ envLeft' = envLeft - 1
    /\ UNCHANGED <<arg, ret, parent, pc, app, seen, base, mr, result, ops, failLeft, mark>>

\* the user deletes the FluxApp: the API server sets the deletion timestamp
UserDelete(p) ==
    /\ envLeft > 0
    /\ parent[p].exists
    /\ ~parent[p].deleting
    /\ parent' = [parent EXCEPT ![p].deleting = TRUE]
    /\ envLeft' = envLeft - 1
    /\ UNCHANGED <<arg, ret, store, pc, app, seen, base, mr, result, ops, failLeft, mark>>

\* the API server removes a FluxApp that is being deleted once it holds no
\* finalizer
Collect(p) ==
    /\ parent[p].exists
    /\ parent[p].deleting
    /\ ~parent[p].finalizer
    /\ parent' = [parent EXCEPT ![p] = NoParent]
    /\ UNCHANGED <<arg, ret, store, pc, app, seen, base, mr, result, ops, envLeft, failLeft, mark>>

(***************************************************************************)
(* Specification: one FluxApp, reconciled over and over                    *)
(***************************************************************************)
InitLocal ==
    /\ store = {}
    /\ pc = [p \in AllParents |-> <<"idle", "">>]
    /\ app = [p \in AllParents |-> NoApp]
    /\ seen = [p \in AllParents |-> NoApp]
    /\ base = [p \in AllParents |-> ZeroStatus]
    /\ mr = [p \in AllParents |-> NoResource]
    /\ result = [p \in AllParents |-> NoResult]
    /\ ops = [p \in AllParents |-> << >>]
    /\ envLeft = MaxEnv
    /\ mark = [p \in AllParents |-> NoMark]

InitCommon ==
    /\ InitLocal
    /\ failLeft = MaxFail
    /\ arg = NoArg
    /\ ret = NoRet

Init ==
    /\ \E repo \in {RepoA, RepoBad, RepoEsc, RepoEmpty} : \E tns \in {""} :
          parent = [p \in AllParents |-> IF p = NameA THEN NewParent(repo, tns) ELSE NoParent]
    /\ InitCommon

Next ==
    \/ Reconcile(NameA)
    \/ PolicyReports
    \/ ReleaseReports
    \/ UserSuspends
    \/ ExternalCreate
    \/ UserDelete(NameA)
    \/ Collect(NameA)

Spec == Init /\ [][Next]_vars

(***************************************************************************)
(* Specification: two FluxApps of one namespace whose charts live in the   *)
(* same repository (oci://gcr.io/p), reconciled side by side.  A fetch of  *)
(* one that precedes the commit of the other is what a worker per FluxApp  *)
(* produces, and also what a single worker produces when its Get is        *)
(* answered from an informer cache that has not yet seen the other's write.*)
(* The store answers every call by itself (no injected failure) and no     *)
(* FluxApp is deleted: the behaviours are a part of the program's.         *)
(***************************************************************************)
Init2 ==
    /\ parent = [p \in AllParents |->
                    IF p = NameA THEN NewParent(RepoA, "") ELSE NewParent(RepoB, "")]
    /\ InitLocal
    /\ failLeft = 0
    /\ arg = NoArg
    /\ ret = NoRet

\* the image-reflector-controller resolves a version for an ImagePolicy
PolicyResolves ==
    /\ PolicyReports
    /\ \A o \in store' : o.status.latestImage \in {Empty, ImgV1}

Next2 ==
    \/ \E p \in AllParents :
          \/ GetApp(p)
          \/ AddFinalizer(p)
          \/ GetChild(p)
          \/ UpdateChild(p)
          \/ PatchStatus(p)
    \/ PolicyResolves

Spec2 == Init2 /\ [][Next2]_vars

(***************************************************************************)
(* Specification: one FluxApp whose reconciler may be stopped between any  *)
(* two store calls (the process dies, the context is cancelled) and is     *)
(* invoked again.  The store answers every call by itself.                 *)
(***************************************************************************)
\* the invocation ends where it is: no further call, no status patch
Crash(p) ==
    /\ pc[p][1] \in {"addFinalizer", "get", "update", "patchStatus"}
    /\ Goto(p, <<"done", "">>)
    /\ result' = [result EXCEPT ![p] = Return(FALSE, "crashed")]
    /\ mr' = [mr EXCEPT ![p] = NoResource]
    /\ UNCHANGED <<arg, ret, parent, store, app, seen, base, ops, envLeft, failLeft, mark>>

Init3 ==
    /\ parent = [p \in AllParents |-> IF p = NameA THEN NewParent(RepoA, "") ELSE NoParent]
    /\ InitLocal
    /\ failLeft = 0
    /\ arg = NoArg
    /\ ret = NoRet

Next3 ==
    \/ GetApp(NameA)
    \/ AddFinalizer(NameA)
    \/ GetChild(NameA)
    \/ UpdateChild(NameA)
    \/ PatchStatus(NameA)
    \/ Crash(NameA)
    \/ PolicyResolves

Spec3 == Init3 /\ [][Next3]_vars

(***************************************************************************)
(* Specification: one FluxApp under the scheduling of the controller       *)
(* manager.  The workqueue hands the FluxApp to Reconcile again after an   *)
(* error, after a requeue, after every event of the FluxApp or of a child  *)
(* it owns, and at every resync of the informers, so another invocation    *)
(* always follows (Invoke, weakly fair); an invocation that has started    *)
(* runs to its return: it stays at no call forever (Advance, weakly fair). *)
(* The store fails a bounded number of calls, the ImagePolicy changes its  *)
(* report a bounded number of times, and the user may delete the FluxApp.  *)
(***************************************************************************)
Invoke(p) ==
    \/ GetAppFails(p)
    \/ GetAppNotFound(p)
    \/ GetApp(p)

Step(p) ==
    \/ RemoveFinalizer(p)
    \/ AddFinalizer(p)
    \/ GetChildFails(p)
    \/ GetChild(p)
    \/ UpdateChild(p)
    \/ PatchStatus(p)

Init4 ==
    /\ parent = [p \in AllParents |-> IF p = NameA THEN NewParent(RepoA, "") ELSE NoParent]
    /\ InitCommon

Next4 ==
    \/ Invoke(NameA)
    \/ Step(NameA)
    \/ PolicyReports
    \/ UserDelete(NameA)
    \/ Collect(NameA)

\* the positions of an invocation
Positions ==
    {<<"idle", "">>, <<"done", "">>, <<"removeFinalizer", "">>, <<"addFinalizer", "">>,
     <<"patchStatus", "">>}
    \cup {<<w, k>> : w \in {"get", "update"},
                     k \in {ImageRepositoryKind, ImagePolicyKind, HelmRepositoryKind,
                            HelmReleaseKind}}

\* the invocation of p leaves the call it is at.  Step(p) is enabled at
\* every position but idle and done, each of its steps moves pc[p] and no
\* other action does, so WF_pc(Advance(p)) is WF_vars(Step(p)), in a form
\* whose ENABLED does not compute the handlers
Advance(p) ==
    /\ pc[p][1] \notin {"idle", "done"}
    /\ \E w \in Positions : w # pc[p] /\ pc' = [pc EXCEPT ![p] = w]

Fair4 == WF_vars(Invoke(NameA)) /\ WF_pc(Advance(NameA))

Spec4 == Init4 /\ [][Next4]_vars /\ Fair4

(***************************************************************************)
(* Specification: one FluxApp whose repository the user may change (the    *)
(* CRD does not make spec.chart.repository immutable), and which the user  *)
(* may delete.  The store fails a bounded number of calls.                 *)
(***************************************************************************)
\* the user edits spec.chart.repository of the FluxApp
UserEdits(p) ==
    /\ envLeft > 0
    /\ parent[p].exists
    /\ parent[p].spec.repository = RepoA
    /\ parent' = [parent EXCEPT ![p].spec.repository = RepoC]
    /\ envLeft' = envLeft - 1
    /\ UNCHANGED <<arg, ret, store, pc, app, seen, base, mr, result, ops, failLeft, mark>>

Init5 ==
    /\ parent = [p \in AllParents |-> IF p = NameA THEN NewParent(RepoA, "") ELSE NoParent]
    /\ InitCommon

Next5 ==
    \/ Invoke(NameA)
    \/ Step(NameA)
    \/ PolicyReports
    \/ UserEdits(NameA)
    \/ UserDelete(NameA)
    \/ Collect(NameA)

Spec5 == Init5 /\ [][Next5]_vars

(***************************************************************************)
(* Specification: providerFromURL and HelmRepositoryName called by         *)
(* themselves on arguments put together from pieces                        *)
(***************************************************************************)
Other == <<"h",".","i","o">>
HostPre == {Empty, <<"x",".">>}
HostCore == {Empty, Aws, Azure, Gcr, Other}
HostPost == {Empty, <<".","c","n">>, <<":","5">>}

\* the host pre c1 [.] c2 post
HostOf(a) ==
    a.pre \o a.c1 \o (IF a.c1 # Empty /\ a.c2 # Empty THEN <<".">> ELSE Empty) \o a.c2 \o a.post

\* the locator oci://host/p
UrlOf(a) == OciPrefix \o HostOf(a) \o <<"/","p">>

ProviderArgs ==
    {[fn |-> "providerFromURL", pre |-> pre, c1 |-> c1, c2 |-> c2, post |-> post] :
        pre \in HostPre, c1 \in HostCore, c2 \in HostCore, post \in HostPost}

\* resolved repositories ("oci://" and the directory of an image)
Repositories ==
    {OciPrefix \o h \o sep \o d :
        h \in {<<"g","c","r",".","i","o">>, <<"g","c","r","-","i","o">>},
        sep \in {<<"/">>, <<"-">>, <<".">>},
        d \in {<<"p">>, <<"q">>}}

NameArgs == {[fn |-> "HelmRepositoryName", x |-> x, y |-> y] : x \in Repositories, y \in Repositories}

\* a FluxApp whose status holds the resolved repository r
Resolving(r) == [NoApp EXCEPT !.status.repository = r]

CallProvider ==
    /\ arg.fn = "providerFromURL"
    /\ ret = NoRet
    /\ ret' = <<providerFromURL(UrlOf(arg))>>
    /\ UNCHANGED <<parent, store, pc, app, seen, base, mr, result, ops, envLeft, failLeft,
                   mark, arg>>

CallHelmRepositoryName ==
    /\ arg.fn = "HelmRepositoryName"
    /\ ret = NoRet
    /\ ret' = <<HelmRepositoryName(Resolving(arg.x)), HelmRepositoryName(Resolving(arg.y))>>
    /\ UNCHANGED <<parent, store, pc, app, seen, base, mr, result, ops, envLeft, failLeft,
                   mark, arg>>

InitFn ==
    /\ parent = [p \in AllParents |-> NoParent]
    /\ InitLocal
    /\ failLeft = 0
    /\ arg \in ProviderArgs \cup NameArgs
    /\ ret = NoRet

NextFn ==
    \/ CallProvider
    \/ CallHelmRepositoryName

SpecFn == InitFn /\ [][NextFn]_vars

(***************************************************************************)
(* Vocabulary of the properties                                            *)
(***************************************************************************)
ChildCalls == {"get", "create", "patch"}
Writes == {"create", "patch"}

\* the invocation has made a call of kind k
Attempted(p, k) == \E i \in DOMAIN ops[p] : ops[p][i].kind = k

\* a call on a child that answered an error the handler returns
HardError(o) ==
    /\ o.op \in ChildCalls
    /\ o.err # "nil"
    /\ ~(o.op = "get" /\ o.err = "NotFound")

NoHardError(p) == \A i \in DOMAIN ops[p] : ~HardError(ops[p][i])

\* the invocation has committed kind k
Committed(p, k) ==
    \E i \in DOMAIN ops[p] :
        ops[p][i].kind = k /\ ops[p][i].op \in Writes /\ ops[p][i].err = "nil"

\* the invocation fetched the ImagePolicy and it reported no latest image
PolicyUnresolved(p) ==
    \E i \in DOMAIN ops[p] :
        /\ ops[p][i].op = "get"
        /\ ops[p][i].kind = ImagePolicyKind
        /\ ops[p][i].err \in {"nil", "NotFound"}
        /\ ops[p][i].status.latestImage = Empty

Returned(p) == pc[p][1] = "done"

(***************************************************************************)
(* C1  Gate correctness                                                    *)
(***************************************************************************)
\* C1 as stated: in an invocation where the ImagePolicy has resolved no
\* version, neither the HelmRepository nor the HelmRelease is fetched,
\* created or patched, and the invocation returns requeue with a nil error.
C1_GateAsStated ==
    \A p \in AllParents :
        PolicyUnresolved(p) =>
            /\ ~Attempted(p, HelmRepositoryKind)
            /\ ~Attempted(p, HelmReleaseKind)
            /\ (Returned(p) /\ NoHardError(p) => result[p] = Return(TRUE, "nil"))

\* C1 amended: in an invocation where the ImagePolicy reports no version and
\* the FluxApp status fetched holds none, the HelmRelease is not fetched,
\* created or patched; the HelmRepository stage runs before the gate, and
\* when no stage fails the HelmRepository is committed and the invocation
\* returns requeue with a nil error.
C1_Gate ==
    \A p \in AllParents :
        PolicyUnresolved(p) /\ seen[p].status.version = Empty =>
            /\ ~Attempted(p, HelmReleaseKind)
            /\ (Returned(p) /\ NoHardError(p) =>
                    /\ result[p] = Return(TRUE, "nil")
                    /\ Committed(p, HelmRepositoryKind))

C1_Witness ==
    /\ Returned(NameA)
    /\ PolicyUnresolved(NameA)
    /\ seen[NameA].status.version = Empty
    /\ Committed(NameA, HelmRepositoryKind)
    /\ result[NameA] = Return(TRUE, "nil")

(***************************************************************************)
(* C2  Create-vs-patch                                                     *)
(***************************************************************************)
\* C2: Get answers without error for an absent object and records no patch
\* base, and records one exactly when the object existed; Update creates iff
\* no base was recorded and patches otherwise; a lookup failure other than
\* NotFound is returned as it is and no child is written after it.
C2_CreateVsPatch ==
    \A p \in AllParents :
        /\ pc[p][1] = "update" =>
              LET g == ops[p][Len(ops[p])]
              IN /\ g.op = "get" /\ g.kind = pc[p][2]
                 /\ g.err \in {"nil", "NotFound"}
                 /\ (mr[p].patch = NoPatch) <=> (g.err = "NotFound")
                 /\ g.err = "nil" =>
                       /\ Key(mr[p].patch) = <<g.kind, g.ns, g.name>>
                       /\ mr[p].patch.status = g.status
        /\ \A i \in DOMAIN ops[p] :
              LET o == ops[p][i]
              IN /\ o.op \in Writes =>
                       /\ i > 1
                       /\ ops[p][i - 1].op = "get"
                       /\ <<ops[p][i - 1].kind, ops[p][i - 1].name>> = <<o.kind, o.name>>
                       /\ (o.op = "create") <=> (ops[p][i - 1].err = "NotFound")
                       /\ (o.op = "patch") <=> (ops[p][i - 1].err = "nil")
                 /\ o.op = "get" /\ o.err \notin {"nil", "NotFound"} =>
                       /\ result[p] = Return(FALSE, o.err)
                       /\ \A j \in DOMAIN ops[p] : j > i => ops[p][j].op \notin Writes

C2_Witness ==
    /\ \E i \in DOMAIN ops[NameA] : ops[NameA][i].op = "create" /\ ops[NameA][i].err = "nil"
    /\ \E i \in DOMAIN ops[NameA] : ops[NameA][i].op = "patch" /\ ops[NameA][i].err = "nil"
    /\ \E i \in DOMAIN ops[NameA] : ops[NameA][i].op = "get" /\ ops[NameA][i].err = "StoreError"

(***************************************************************************)
(* C3  Ownership                                                           *)
(***************************************************************************)
\* C3: every child the reconciler has created or patched for a FluxApp
\* carries a controller owner reference to it, also a child that was in the
\* store without one when the reconciler first fetched it.
C3_Ownership ==
    \A p \in AllParents : \A i \in DOMAIN ops[p] :
        ops[p][i].op \in Writes /\ ops[p][i].err = "nil" =>
            \A o \in Lookup(ops[p][i].kind, ops[p][i].ns, ops[p][i].name) : p \in o.owners

(***************************************************************************)
(* C4  Fail-fast                                                           *)
(***************************************************************************)
\* C4: when the fetch or the commit of a stage answers a store error, the
\* invocation returns that error, and after the failed call it makes no call
\* on any child (no later stage, no rollback of an earlier one): only the
\* status patch follows.
C4_FailFast ==
    \A p \in AllParents : \A i \in DOMAIN ops[p] :
        HardError(ops[p][i]) =>
            /\ pc[p][1] \in {"patchStatus", "done"}
            /\ result[p] = Return(FALSE, ops[p][i].err)
            /\ \A j \in DOMAIN ops[p] : j > i => ops[p][j].op = "patchStatus"

C4_Witness ==
    /\ Returned(NameA)
    /\ Committed(NameA, ImageRepositoryKind)
    /\ Committed(NameA, ImagePolicyKind)
    /\ \E i \in DOMAIN ops[NameA] :
          HardError(ops[NameA][i]) /\ ops[NameA][i].kind = HelmRepositoryKind
    /\ result[NameA].err = "StoreError"

(***************************************************************************)
(* C5  Finalizer registration                                              *)
(***************************************************************************)
\* the invocation found the FluxApp with no deletion timestamp and no finalizer
FoundUnregistered(p) ==
    /\ Len(ops[p]) >= 1
    /\ ops[p][1].err = "nil"
    /\ ~seen[p].deleting
    /\ ~seen[p].finalizer

\* C5 as stated: an invocation that finds the FluxApp with no deletion
\* timestamp and no finalizer registers the finalizer, persists it, and
\* makes no call on any child in that invocation.
C5_DeferredAsStated ==
    \A p \in AllParents :
        FoundUnregistered(p) =>
            /\ pc[p][1] \in {"addFinalizer", "done"}
            /\ \A i \in DOMAIN ops[p] : ops[p][i].op \notin ChildCalls

\* C5 amended: such an invocation registers the finalizer with one update of
\* the FluxApp as its first write; when the update succeeds the chain runs in
\* the same invocation, starting with the fetch of the ImageRepository; when
\* it fails the invocation returns the error and makes no further call.
C5_RegisterThenChain ==
    \A p \in AllParents :
        FoundUnregistered(p) =>
            /\ Len(ops[p]) = 1 => pc[p] = <<"addFinalizer", "">>
            /\ Len(ops[p]) >= 2 =>
                  /\ ops[p][2].op = "updateApp" /\ ops[p][2].diff = {"finalizer+"}
                  /\ ops[p][2].err = "nil" =>
                        /\ parent[p].exists => parent[p].finalizer
                        /\ IF Len(ops[p]) = 2 THEN pc[p] = <<"get", ImageRepositoryKind>>
                           ELSE ops[p][3].op = "get" /\ ops[p][3].kind = ImageRepositoryKind
                  /\ ops[p][2].err # "nil" =>
                        /\ Len(ops[p]) = 2
                        /\ Returned(p)
                        /\ result[p] = Return(FALSE, ops[p][2].err)

C5_Witness ==
    /\ FoundUnregistered(NameA)
    /\ Returned(NameA)
    /\ ops[NameA][2].err = "nil"
    /\ Committed(NameA, ImageRepositoryKind)

(***************************************************************************)
(* C6  Deletion path                                                       *)
(***************************************************************************)
\* the invocation found the FluxApp with a deletion timestamp
FoundDeleting(p) == Len(ops[p]) >= 1 /\ ops[p][1].err = "nil" /\ seen[p].deleting

\* C6: an invocation that finds the FluxApp with a deletion timestamp and the
\* finalizer removes the finalizer with one update of the FluxApp and makes
\* no call on any child and no status patch; with a deletion timestamp and no
\* finalizer it writes nothing.  It returns success without requeue, or the
\* error of the update.
C6_DeletionPath ==
    \A p \in AllParents :
        FoundDeleting(p) =>
            /\ \A i \in DOMAIN ops[p] : ops[p][i].op \in {"getApp", "updateApp"}
            /\ seen[p].finalizer =>
                  /\ Len(ops[p]) = 1 => pc[p] = <<"removeFinalizer", "">>
                  /\ Len(ops[p]) >= 2 =>
                        /\ Len(ops[p]) = 2
                        /\ ops[p][2].op = "updateApp" /\ ops[p][2].diff = {"finalizer-"}
                        /\ Returned(p)
                        /\ result[p] = Return(FALSE, ops[p][2].err)
                        /\ ops[p][2].err = "nil" => ~parent[p].finalizer
            /\ ~seen[p].finalizer =>
                  /\ Len(ops[p]) = 1
                  /\ Returned(p)
                  /\ result[p] = Return(FALSE, "nil")

C6_Witness ==
    /\ FoundDeleting(NameA)
    /\ seen[NameA].finalizer
    /\ Returned(NameA)
    /\ ops[NameA][2].err = "nil"
    /\ store # {}

(***************************************************************************)
(* C7  Finalizer ordering                                                  *)
(***************************************************************************)
\* C7: the FluxApp is never removed from the store while it holds the
\* finalizer; the finalizer is removed only by an invocation that fetched the
\* FluxApp with its deletion timestamp set, and that invocation is not the
\* one that registered the finalizer.
C7_FinalizerOrdering ==
    [][\A p \in AllParents :
          /\ parent[p].exists /\ ~parent'[p].exists => ~parent[p].finalizer
          /\ parent[p].finalizer /\ ~parent'[p].finalizer =>
                /\ pc[p] = <<"removeFinalizer", "">>
                /\ seen[p].deleting
                /\ parent[p].deleting
                /\ \A i \in DOMAIN ops[p] : ops[p][i].diff # {"finalizer+"}]_vars

C7_Witness ==
    /\ ~parent[NameA].exists
    /\ Returned(NameA)
    /\ Len(ops[NameA]) = 2
    /\ ops[NameA][2].diff = {"finalizer-"}
    /\ ops[NameA][2].err = "nil"

(***************************************************************************)
(* C8  Condition fallback                                                  *)
(***************************************************************************)
\* the invocation has passed the finalizer handling and entered the chain
RanChain(p) == \E i \in DOMAIN ops[p] : ops[p][i].op \in ChildCalls

\* the status patch of the invocation was applied
StatusPersisted(p) ==
    /\ Returned(p)
    /\ ops[p][Len(ops[p])].op = "patchStatus"
    /\ ops[p][Len(ops[p])].err = "nil"
    /\ parent[p].exists

\* C8 as stated: after every invocation that runs the chain (here: and
\* returns no error) while no HelmRelease exists in the store, the persisted
\* status of the FluxApp has Ready = False with reason Progressing, also when
\* the invocation stops at the gate and requeues.
C8_FallbackAsStated ==
    \A p \in AllParents :
        /\ RanChain(p)
        /\ result[p].err = "nil"
        /\ StatusPersisted(p)
        /\ Lookup(HelmReleaseKind, seen[p].ns, p) = {}
        => parent[p].status.ready = Progressing

\* the invocation fetched the HelmRelease and found none
ReleaseNotFound(p) ==
    \E i \in DOMAIN ops[p] :
        ops[p][i].op = "get" /\ ops[p][i].kind = HelmReleaseKind /\ ops[p][i].err = "NotFound"

\* C8 amended: after every invocation that passes the gate and whose fetch
\* finds no HelmRelease, the status it patches has Ready = False with reason
\* Progressing, and so has the persisted status when the status patch
\* succeeds; an invocation that returns before the fetch of the HelmRelease
\* (the gate's requeue, an earlier error) leaves the Ready condition as it
\* found it, absent on a new FluxApp.
C8_Fallback ==
    \A p \in AllParents :
        /\ ReleaseNotFound(p) =>
              /\ app[p].status.ready = Progressing
              /\ StatusPersisted(p) => parent[p].status.ready = Progressing
        /\ RanChain(p) /\ Returned(p) /\ ~Attempted(p, HelmReleaseKind) =>
              /\ app[p].status.ready = seen[p].status.ready
              /\ StatusPersisted(p) => parent[p].status.ready = seen[p].status.ready

C8_Witness ==
    /\ ReleaseNotFound(NameA)
    /\ StatusPersisted(NameA)
    /\ parent[NameA].status.ready = Progressing
    /\ result[NameA] = Return(FALSE, "nil")

(***************************************************************************)
(* C9  Idempotence                                                         *)
(***************************************************************************)
\* the running (or just returned) invocation follows one that ran the whole
\* chain, and nothing outside the reconciler has written since that one began
SecondRun(p) == mark[p].again /\ mark[p].env0 = envLeft

\* C9 as stated: such a second run issues no patch to a child.
C9_NoPatchAsStated ==
    \A p \in AllParents :
        SecondRun(p) => \A i \in DOMAIN ops[p] : ops[p][i].op # "patch"

\* C9 amended: such a second run creates no child and every patch it issues
\* is empty (the desired spec equals the patch base in every field), so no
\* child's stored name, spec or owner changes.
C9_Idempotent ==
    \A p \in AllParents :
        SecondRun(p) =>
            /\ store = mark[p].children
            /\ \A i \in DOMAIN ops[p] :
                  /\ ops[p][i].op # "create"
                  /\ ops[p][i].op = "patch" => ops[p][i].diff = {}

C9_Witness ==
    /\ SecondRun(NameA)
    /\ Returned(NameA)
    /\ \A k \in Kinds : Committed(NameA, k)
    /\ result[NameA] = Return(FALSE, "nil")

(***************************************************************************)
(* C10  Naming determinism                                                 *)
(***************************************************************************)
\* the name the reconciler must use for kind k of FluxApp p whose resolved
\* repository is oci://gcr.io/p (or is empty, for the repository oci://)
ExpectedName(k, p) ==
    CASE k \in {ImageRepositoryKind, ImagePolicyKind} -> p \o <<"-","c","h","a","r","t">>
      [] k = HelmRepositoryKind ->
            IF seen[p].spec.repository = RepoEmpty THEN Empty
            ELSE <<"g","c","r","-","i","o","-","p">>
      [] k = HelmReleaseKind -> p

\* C10: every invocation derives the same child names: ImageRepository and
\* ImagePolicy are parentName-chart, the HelmRelease is parentName, the
\* HelmRepository is the sanitized resolved repository, all in the namespace
\* of the FluxApp; repeated runs never rename or duplicate a child.
C10_Naming ==
    \A p \in AllParents :
        /\ \A i \in DOMAIN ops[p] :
              ops[p][i].op \in ChildCalls =>
                  /\ ops[p][i].ns = seen[p].ns
                  /\ ops[p][i].name = ExpectedName(ops[p][i].kind, p)
        /\ \A o \in store :
              p \in o.owners => o.ns = Namespace /\ o.name = ExpectedName(o.kind, p)
        /\ \A k \in Kinds : Cardinality({o \in store : o.kind = k /\ p \in o.owners}) <= 1

C10_Witness ==
    /\ SecondRun(NameA)
    /\ Returned(NameA)
    /\ \A k \in Kinds :
          /\ Committed(NameA, k)
          /\ \E o \in store : o.kind = k /\ NameA \in o.owners

(***************************************************************************)
(* C11  Shared chart source                                                *)
(***************************************************************************)
\* C11: when two FluxApps of one namespace resolve to the same repository,
\* no create of the HelmRepository by either answers AlreadyExists, however
\* their fetches and commits interleave.
C11_NoCreateConflict ==
    \A p \in AllParents : \A i \in DOMAIN ops[p] :
        ops[p][i].kind = HelmRepositoryKind /\ ops[p][i].op = "create" =>
            ops[p][i].err # "AlreadyExists"

(***************************************************************************)
(* C12  Non-clobbering patch                                               *)
(***************************************************************************)
\* C12: the patch a commit sends is the difference between the object the
\* reconciler holds and the copy taken at the fetch, so a commit leaves the
\* stored child's status, and every spec field the reconciler left as it
\* fetched it, as the store holds them at the commit: what another
\* controller wrote between the fetch and the commit is still there after.
C12_NonClobbering ==
    [][\A p \in AllParents :
          /\ pc[p][1] = "update"
          /\ pc'[p] # pc[p]
          /\ ~UsesCreate(mr[p])
          /\ ops'[p][Len(ops'[p])].err = "nil"
          => \A cur \in Lookup(pc[p][2], mr[p].obj.ns, mr[p].obj.name) :
                \E new \in store' :
                   /\ Key(new) = Key(cur)
                   /\ new.status = cur.status
                   /\ \A f \in DOMAIN cur.spec :
                         mr[p].obj.spec[f] = mr[p].patch.spec[f] => new.spec[f] = cur.spec[f]]_vars

\* the ImagePolicy was patched, the image-reflector-controller had written
\* its latest image after the fetch, and it is in the store after the commit
C12_Witness ==
    /\ pc[NameA] = <<"get", HelmRepositoryKind>>
    /\ LET n == Len(ops[NameA])
       IN /\ n >= 2
          /\ ops[NameA][n].op = "patch" /\ ops[NameA][n].kind = ImagePolicyKind
          /\ ops[NameA][n].err = "nil"
          /\ ops[NameA][n - 1].status.latestImage = Empty
          /\ ops[NameA][n].status.latestImage = ImgV1
          /\ \E o \in store : o.kind = ImagePolicyKind /\ o.status.latestImage = ImgV1

(***************************************************************************)
(* C13  Status persistence                                                 *)
(***************************************************************************)
\* C13: every invocation that enters the chain issues the patch of the
\* FluxApp's status exactly once, as its last store call, whether the chain
\* ends in success, in the requeue or in an error; no status patch is issued
\* while the chain runs; and when the patch is applied the stored status is
\* the status the invocation built.
C13_StatusPersistence ==
    \A p \in AllParents :
        RanChain(p) =>
            LET n == Len(ops[p])
            IN /\ \A i \in 1..(n - 1) : ops[p][i].op # "patchStatus"
               /\ Returned(p) <=> ops[p][n].op = "patchStatus"
               /\ Returned(p) /\ ops[p][n].err = "nil" /\ parent[p].exists =>
                     parent[p].status = app[p].status

\* an invocation whose chain ended in an error has patched the status last
C13_Witness ==
    /\ Returned(NameA)
    /\ RanChain(NameA)
    /\ result[NameA].err = "InvalidImageRef"
    /\ StatusPersisted(NameA)
    /\ parent[NameA].status.repository # Empty

(***************************************************************************)
(* C14  Malformed upstream data                                            *)
(***************************************************************************)
\* the invocation fetched an ImagePolicy whose latest image is not empty and
\* does not split on ":" into exactly two segments
PolicyMalformed(p) ==
    \E i \in DOMAIN ops[p] :
        /\ ops[p][i].op = "get"
        /\ ops[p][i].kind = ImagePolicyKind
        /\ ops[p][i].err = "nil"
        /\ ops[p][i].status.latestImage # Empty
        /\ Len(Split(ops[p][i].status.latestImage, Colon)) # 2

\* C14: an invocation that fetches an ImagePolicy reporting a non-empty
\* reference with the wrong segment count returns an error, and makes no call
\* on the HelmRepository or the HelmRelease (no create, no patch): the
\* status patch is all that follows the fetch.
C14_Malformed ==
    \A p \in AllParents :
        PolicyMalformed(p) =>
            /\ pc[p][1] \in {"patchStatus", "done"}
            /\ result[p] = Return(FALSE, "InvalidImageRef")
            /\ ~Attempted(p, HelmRepositoryKind)
            /\ ~Attempted(p, HelmReleaseKind)
            /\ ops[p][Len(ops[p])].op \in {"get", "patchStatus"}

C14_Witness ==
    /\ Returned(NameA)
    /\ PolicyMalformed(NameA)
    /\ Committed(NameA, ImageRepositoryKind)
    /\ \E o \in store : o.kind = HelmReleaseKind

(***************************************************************************)
(* C15  Invalid input                                                      *)
(***************************************************************************)
\* the repositories of the model that are not well formed: one without
\* "://" and one with an invalid percent escape
MalformedRepos == {RepoBad, RepoEsc}

\* C15: an invocation for a FluxApp whose repository is not well formed
\* returns an error once it has fetched the ImageRepository, and neither
\* creates nor patches a child of any kind.
C15_InvalidInput ==
    \A p \in AllParents :
        seen[p].spec.repository \in MalformedRepos =>
            /\ \A i \in DOMAIN ops[p] : ops[p][i].op \notin Writes
            /\ \A k \in Kinds \ {ImageRepositoryKind} : ~Attempted(p, k)
            /\ Attempted(p, ImageRepositoryKind) =>
                  /\ pc[p][1] \in {"patchStatus", "done"}
                  /\ result[p].err \in {"InvalidURL", "InvalidRepository", "StoreError"}
                  /\ seen[p].spec.repository = RepoBad /\ NoHardError(p) =>
                        result[p] = Return(FALSE, "InvalidRepository")
                  /\ seen[p].spec.repository = RepoEsc /\ NoHardError(p) =>
                        result[p] = Return(FALSE, "InvalidURL")

\* the invocation found an ImageRepository in the store (so that a commit
\* would be a patch) and returned the URL error without writing
C15_Witness ==
    /\ Returned(NameA)
    /\ seen[NameA].spec.repository = RepoEsc
    /\ result[NameA] = Return(FALSE, "InvalidURL")
    /\ \E i \in DOMAIN ops[NameA] :
          ops[NameA][i].op = "get" /\ ops[NameA][i].kind = ImageRepositoryKind
          /\ ops[NameA][i].err = "nil"
    /\ StatusPersisted(NameA)

(***************************************************************************)
(* C16  Failures are visible on the FluxApp                                *)
(***************************************************************************)
\* C16: after an invocation whose chain returned an error and whose status
\* patch was applied, the stored Ready condition of the FluxApp is present
\* and not True.
C16_FailureVisible ==
    \A p \in AllParents :
        RanChain(p) /\ StatusPersisted(p) /\ result[p].err # "nil" =>
            parent[p].status.ready.status \notin {"Absent", "True"}

(***************************************************************************)
(* C17  Condition mirror                                                   *)
(***************************************************************************)
\* C17: when the release stage fetches a HelmRelease that has a Ready
\* condition, the Ready condition of the FluxApp the invocation holds from
\* then on, and the one stored once its status patch is applied, is that
\* condition (status, reason, message) as fetched.
C17_Mirror ==
    \A p \in AllParents : \A i \in DOMAIN ops[p] :
        /\ ops[p][i].op = "get"
        /\ ops[p][i].kind = HelmReleaseKind
        /\ ops[p][i].err = "nil"
        /\ ops[p][i].status.ready # NoCondition
        => /\ app[p].status.ready = ops[p][i].status.ready
           /\ StatusPersisted(p) => parent[p].status.ready = ops[p][i].status.ready

\* the FluxApp was Progressing, the HelmRelease then reported a failure, and
\* the invocation stored the failure
C17_Witness ==
    /\ StatusPersisted(NameA)
    /\ seen[NameA].status.ready = Progressing
    /\ parent[NameA].status.ready = ReadyFailed
    /\ \E i \in DOMAIN ops[NameA] :
          ops[NameA][i].op = "get" /\ ops[NameA][i].kind = HelmReleaseKind
          /\ ops[NameA][i].status.ready = ReadyFailed

(***************************************************************************)
(* C18  Provider inference                                                 *)
(***************************************************************************)
HasSuffix(s, x) == Len(x) <= Len(s) /\ Sub(s, Len(s) - Len(x) + 1, Len(s)) = x

\* C18 as stated: the tag is decided by the suffix of the host: aws when it
\* ends in amazonaws.com, else azure when it ends in azurecr.io, else gcp
\* when it ends in gcr.io, and generic for every other host.
C18_SuffixAsStated ==
    arg.fn = "providerFromURL" /\ ret # NoRet =>
        ret[1] = IF HasSuffix(HostOf(arg), Aws) THEN "aws"
                 ELSE IF HasSuffix(HostOf(arg), Azure) THEN "azure"
                 ELSE IF HasSuffix(HostOf(arg), Gcr) THEN "gcp"
                 ELSE "generic"

\* C18 amended: the tag is decided by what the host holds anywhere in it
\* (port included): aws when amazonaws.com is a part of it, else azure when
\* azurecr.io is, else gcp when gcr.io is, and generic for a host that holds
\* none of them.
C18_Provider ==
    arg.fn = "providerFromURL" /\ ret # NoRet =>
        ret[1] = IF Aws \in {arg.c1, arg.c2} THEN "aws"
                 ELSE IF Azure \in {arg.c1, arg.c2} THEN "azure"
                 ELSE IF Gcr \in {arg.c1, arg.c2} THEN "gcp"
                 ELSE "generic"

\* oci://gcr.io.amazonaws.com.cn/p is tagged aws
C18_Witness ==
    /\ arg.fn = "providerFromURL"
    /\ arg.c1 = Gcr /\ arg.c2 = Aws /\ arg.pre = Empty /\ arg.post = <<".","c","n">>
    /\ ret = <<"aws">>

(***************************************************************************)
(* C19  Status across invocations                                          *)
(***************************************************************************)
\* C19 as stated: the status an invocation persists does not depend on the
\* status earlier invocations left: after an invocation in which the
\* ImagePolicy reports no reference, the persisted status holds no version.
C19_RebuiltAsStated ==
    \A p \in AllParents :
        PolicyUnresolved(p) /\ StatusPersisted(p) => parent[p].status.version = Empty

\* the invocation fetched the ImagePolicy and it reported the image v
PolicyReported(p, v) ==
    \E i \in DOMAIN ops[p] :
        /\ ops[p][i].op = "get" /\ ops[p][i].kind = ImagePolicyKind
        /\ ops[p][i].err = "nil"
        /\ ops[p][i].status.latestImage = v

\* the invocation's fetch of the ImageRepository answered
RepositoryFetched(p) ==
    \E i \in DOMAIN ops[p] :
        /\ ops[p][i].op = "get" /\ ops[p][i].kind = ImageRepositoryKind
        /\ ops[p][i].err \in {"nil", "NotFound"}

\* C19 amended: the invocation works on the status it fetched.  Repository
\* and name are set anew from the spec once the ImageRepository is fetched
\* and the repository is valid (oci://gcr.io/p and a for oci://gcr.io/p/a),
\* and are the fetched ones before.  The version is the version segment the
\* ImagePolicy reports in this invocation, and when it reports none (or the
\* invocation does not get that far) the version the earlier invocation left:
\* it survives.  The status patch stores exactly this status.
C19_StatusCarried ==
    \A p \in AllParents :
        RanChain(p) =>
            /\ <<app[p].status.repository, app[p].status.name>> =
                  IF RepositoryFetched(p) /\ seen[p].spec.repository = RepoA
                  THEN << <<"o","c","i",":","/","/","g","c","r",".","i","o","/","p">>, <<"a">> >>
                  ELSE <<seen[p].status.repository, seen[p].status.name>>
            /\ app[p].status.version =
                  IF PolicyReported(p, ImgV1) THEN <<"1">>
                  ELSE IF PolicyReported(p, ImgV2) THEN <<"2">>
                  ELSE seen[p].status.version
            /\ StatusPersisted(p) =>
                  /\ parent[p].status.repository = app[p].status.repository
                  /\ parent[p].status.name = app[p].status.name
                  /\ parent[p].status.version = app[p].status.version

\* the ImagePolicy reports nothing any more and the version of the earlier
\* invocation is still in the stored status
C19_Witness ==
    /\ StatusPersisted(NameA)
    /\ PolicyUnresolved(NameA)
    /\ seen[NameA].status.version = <<"1">>
    /\ parent[NameA].status.version = <<"1">>
    /\ Committed(NameA, HelmReleaseKind)

(***************************************************************************)
(* C20  Chart-source name collisions                                       *)
(***************************************************************************)
\* C20: HelmRepositoryName gives two resolved repositories the same name
\* only if they are the same repository.
C20_Injective ==
    arg.fn = "HelmRepositoryName" /\ ret # NoRet /\ ret[1] = ret[2] => arg.x = arg.y

(***************************************************************************)
(* C21  The chart source stage and an empty resolved repository            *)
(***************************************************************************)
\* C21 as stated: the HelmRepository is not fetched (nor created, nor
\* patched) in an invocation whose resolved repository is empty when the
\* stage is reached.
C21_SkippedAsStated ==
    \A p \in AllParents :
        Attempted(p, HelmRepositoryKind) => app[p].status.repository # Empty

\* C21 amended: the chart source stage is never skipped.  Once the
\* ImagePolicy stage has committed, the invocation fetches the HelmRepository
\* under the name derived from the resolved repository, also when the
\* resolved repository is empty; the name is then empty, the fetch or the
\* create answers an error, the invocation returns it, and no HelmRepository
\* is created or patched.
C21_NotSkipped ==
    \A p \in AllParents :
        /\ Committed(p, ImagePolicyKind) =>
              \/ pc[p] = <<"get", HelmRepositoryKind>>
              \/ Attempted(p, HelmRepositoryKind)
        /\ Attempted(p, HelmRepositoryKind) /\ app[p].status.repository = Empty =>
              /\ ~Committed(p, HelmRepositoryKind)
              /\ ~Attempted(p, HelmReleaseKind)
              /\ \/ pc[p] = <<"update", HelmRepositoryKind>>
                 \/ /\ pc[p][1] \in {"patchStatus", "done"}
                    /\ result[p].err \in {"InvalidName", "StoreError"}

\* the repository oci:// leaves the resolved repository empty, and the
\* create of a HelmRepository without a name was refused
C21_Witness ==
    /\ Returned(NameA)
    /\ seen[NameA].spec.repository = RepoEmpty
    /\ app[NameA].status.repository = Empty
    /\ \E i \in DOMAIN ops[NameA] :
          /\ ops[NameA][i].kind = HelmRepositoryKind
          /\ ops[NameA][i].op = "create"
          /\ ops[NameA][i].err = "InvalidName"
    /\ result[NameA] = Return(FALSE, "InvalidName")

(***************************************************************************)
(* C22  Order of projection and commit                                     *)
(***************************************************************************)
\* a commit (create or patch) of kind k answered an error in the invocation
CommitFailed(p, k) ==
    \E i \in DOMAIN ops[p] :
        ops[p][i].kind = k /\ ops[p][i].op \in Writes /\ ops[p][i].err # "nil"

ResolvedA == <<"o","c","i",":","/","/","g","c","r",".","i","o","/","p">>

\* C22 as stated: the status is projected after the commit of a stage has
\* succeeded, so an invocation in which the commit of the ImageRepository or
\* of the ImagePolicy fails persists repository, name and version as they
\* were when it started.
C22_AfterCommitAsStated ==
    \A p \in AllParents :
        /\ StatusPersisted(p)
        /\ CommitFailed(p, ImageRepositoryKind) \/ CommitFailed(p, ImagePolicyKind)
        => /\ parent[p].status.repository = seen[p].status.repository
           /\ parent[p].status.name = seen[p].status.name
           /\ parent[p].status.version = seen[p].status.version

\* C22 amended: each stage projects the status before it commits.  When the
\* commit of the ImageRepository is about to be sent, the status the
\* invocation holds has the repository and name derived from the spec
\* (oci://gcr.io/p and a for oci://gcr.io/p/a), and when the commit of the
\* ImagePolicy is about to be sent it has the version the ImagePolicy
\* reported at the fetch; an invocation whose commit then fails persists
\* these values all the same.
C22_ProjectBeforeCommit ==
    \A p \in AllParents :
        /\ seen[p].spec.repository = RepoA /\
           (pc[p] = <<"update", ImageRepositoryKind>> \/ CommitFailed(p, ImageRepositoryKind)) =>
              /\ app[p].status.repository = ResolvedA
              /\ app[p].status.name = <<"a">>
              /\ StatusPersisted(p) =>
                    parent[p].status.repository = ResolvedA /\ parent[p].status.name = <<"a">>
        /\ \A v \in {ImgV1, ImgV2} :
              PolicyReported(p, v) /\
              (pc[p] = <<"update", ImagePolicyKind>> \/ CommitFailed(p, ImagePolicyKind)) =>
                 /\ app[p].status.version = <<v[Len(v)]>>
                 /\ StatusPersisted(p) => parent[p].status.version = <<v[Len(v)]>>

\* the create of the ImageRepository failed on a new FluxApp and the stored
\* status names the repository
C22_Witness ==
    /\ StatusPersisted(NameA)
    /\ seen[NameA].status.repository = Empty
    /\ CommitFailed(NameA, ImageRepositoryKind)
    /\ parent[NameA].status.repository = ResolvedA
    /\ parent[NameA].status.name = <<"a">>

(***************************************************************************)
(* C23  Resolved version extraction                                        *)
(***************************************************************************)
\* what follows the last ":" of a reference
AfterLastColon(v) == Sub(v, LastIndex(v, ":") + 1, Len(v))

\* C23: when the ImagePolicy fetched by the invocation reports a reference
\* that holds a ":", the version in the status the invocation holds (and
\* persists) is what follows the last ":" of the reference, also for a
\* reference whose registry host carries a port.
C23_LastSegment ==
    \A p \in AllParents : \A v \in LatestImages :
        PolicyReported(p, v) /\ Contains(v, Colon) =>
            /\ app[p].status.version = AfterLastColon(v)
            /\ StatusPersisted(p) => parent[p].status.version = AfterLastColon(v)

(***************************************************************************)
(* C24  Stage order and referential integrity                              *)
(***************************************************************************)
\* the place of a kind in the chain
Rank(k) ==
    CASE k = ImageRepositoryKind -> 1
      [] k = ImagePolicyKind -> 2
      [] k = HelmRepositoryKind -> 3
      [] k = HelmReleaseKind -> 4

\* the invocation has committed the object of kind k named n in namespace ns
CommittedAs(p, k, ns, n) ==
    \E i \in DOMAIN ops[p] :
        /\ ops[p][i].op \in Writes /\ ops[p][i].err = "nil"
        /\ <<ops[p][i].kind, ops[p][i].ns, ops[p][i].name>> = <<k, ns, n>>

\* C24: within one invocation a stage is fetched or committed only after
\* the commit of every earlier stage has succeeded, and each kind is
\* committed at most once; the ImagePolicy about to be committed refers to
\* the ImageRepository committed in the same invocation, and the HelmRelease
\* about to be committed to the HelmRepository committed in it.
C24_StageOrder ==
    \A p \in AllParents :
        /\ \A i \in DOMAIN ops[p] :
              ops[p][i].op \in ChildCalls =>
                  /\ \A k \in Kinds :
                        Rank(k) < Rank(ops[p][i].kind) =>
                            \E j \in 1..(i - 1) :
                                /\ ops[p][j].kind = k
                                /\ ops[p][j].op \in Writes
                                /\ ops[p][j].err = "nil"
                  /\ \A j \in 1..(i - 1) :
                        ops[p][j].op \in Writes => Rank(ops[p][j].kind) < Rank(ops[p][i].kind)
        /\ pc[p] = <<"update", ImagePolicyKind>> =>
              CommittedAs(p, ImageRepositoryKind, mr[p].obj.spec.imageRepositoryRefNamespace,
                          mr[p].obj.spec.imageRepositoryRefName)
        /\ pc[p] = <<"update", HelmReleaseKind>> =>
              /\ mr[p].obj.spec.sourceRefKind = HelmRepositoryKind
              /\ CommittedAs(p, HelmRepositoryKind, mr[p].obj.spec.sourceRefNamespace,
                             mr[p].obj.spec.sourceRefName)

\* a HelmRelease is about to be created and the HelmRepository it names was
\* created in this invocation
C24_Witness ==
    /\ pc[NameA] = <<"update", HelmReleaseKind>>
    /\ UsesCreate(mr[NameA])
    /\ \E i \in DOMAIN ops[NameA] :
          /\ ops[NameA][i].op = "create" /\ ops[NameA][i].err = "nil"
          /\ ops[NameA][i].kind = HelmRepositoryKind
          /\ ops[NameA][i].name = mr[NameA].obj.spec.sourceRefName

(***************************************************************************)
(* C25  Data dependencies                                                  *)
(***************************************************************************)
\* a HelmRelease the reconciler has written (it alone sets releaseName) names
\* a chart, a version and a source; a HelmRepository it has written (type
\* oci) has a URL
WrittenComplete ==
    \A o \in store :
        /\ o.kind = HelmReleaseKind /\ o.spec.releaseName # Empty =>
              o.spec.chart # Empty /\ o.spec.version # Empty /\ o.spec.sourceRefName # Empty
        /\ o.kind = HelmRepositoryKind /\ o.spec.type = "oci" => o.spec.url # Empty

\* C25 as stated: what the reconciler has written is complete, and a stage
\* whose upstream status field is empty is skipped with all later stages:
\* the HelmRepository is not fetched while the resolved repository is empty,
\* the HelmRelease not while repository, name or version is.
C25_SkippedAsStated ==
    /\ WrittenComplete
    /\ \A p \in AllParents :
          /\ Attempted(p, HelmReleaseKind) => ~Gate(app[p])
          /\ Attempted(p, HelmRepositoryKind) \/ Attempted(p, HelmReleaseKind) =>
                app[p].status.repository # Empty

\* C25 amended: what the reconciler has written is complete.  The release
\* stage is skipped (with the requeue) while repository, name or version is
\* empty.  The chart source stage is not skipped while the resolved
\* repository is empty: it runs under an empty name and fails, so that no
\* HelmRepository is written and the release stage is not reached.
C25_DataDependency ==
    /\ WrittenComplete
    /\ \A p \in AllParents :
          /\ Attempted(p, HelmReleaseKind) => ~Gate(app[p])
          /\ Returned(p) /\ Committed(p, HelmRepositoryKind) /\ Gate(app[p]) =>
                result[p] = Return(TRUE, "nil")
          /\ Attempted(p, HelmRepositoryKind) /\ app[p].status.repository = Empty =>
                /\ ~Committed(p, HelmRepositoryKind)
                /\ ~Attempted(p, HelmReleaseKind)
                /\ Returned(p) => result[p].err # "nil"

\* an invocation stopped at the gate, with the HelmRepository written and
\* no HelmRelease in the store
C25_Witness ==
    /\ Returned(NameA)
    /\ app[NameA].status.version = Empty
    /\ result[NameA] = Return(TRUE, "nil")
    /\ \E o \in store : o.kind = HelmRepositoryKind /\ o.spec.url = ResolvedA
    /\ \A o \in store : o.kind # HelmReleaseKind

(***************************************************************************)
(* C26  Crash tolerance                                                    *)
(***************************************************************************)
ChartA == <<"a","-","c","h","a","r","t">>
SourceA == <<"g","c","r","-","i","o","-","p">>

\* the latest image of the ImagePolicy of FluxApp a, empty when there is none
PolicyImage ==
    IF Lookup(ImagePolicyKind, Namespace, ChartA) = {} THEN Empty
    ELSE (CHOOSE o \in Lookup(ImagePolicyKind, Namespace, ChartA) : TRUE).status.latestImage

\* the children of FluxApp a (repository oci://gcr.io/p/a) for the resolved
\* version v, their status apart
ChildrenOfA(v) ==
    {[kind |-> ImageRepositoryKind, ns |-> Namespace, name |-> ChartA, owners |-> {NameA},
      status |-> ZeroChildStatus,
      spec |-> [image |-> <<"g","c","r",".","i","o","/","p","/","a">>, interval |-> "1m",
                provider |-> "gcp"]],
     [kind |-> ImagePolicyKind, ns |-> Namespace, name |-> ChartA, owners |-> {NameA},
      status |-> ZeroChildStatus,
      spec |-> [imageRepositoryRefName |-> ChartA, imageRepositoryRefNamespace |-> Namespace,
                semverRange |-> AnyVersion]],
     [kind |-> HelmRepositoryKind, ns |-> Namespace, name |-> SourceA, owners |-> {NameA},
      status |-> ZeroChildStatus,
      spec |-> [url |-> ResolvedA, type |-> "oci", provider |-> "gcp"]]}
    \cup
    (IF v = Empty THEN {}
     ELSE {[kind |-> HelmReleaseKind, ns |-> Namespace, name |-> NameA, owners |-> {NameA},
            status |-> ZeroChildStatus,
            spec |-> [chart |-> NameA, version |-> v, sourceRefKind |-> "HelmRepository",
                      sourceRefName |-> SourceA, sourceRefNamespace |-> Namespace,
                      interval |-> "1m", releaseName |-> NameA, targetNamespace |-> Namespace,
                      driftDetection |-> "enabled,ignore:/spec/replicas",
                      install |-> "replace,crds:CreateReplace,createNamespace",
                      upgrade |-> "crds:CreateReplace", suspend |-> FALSE]]})

\* the children and the status an uninterrupted invocation of FluxApp a
\* ends with, from the store s0 and the status st0 it starts with, when the
\* ImagePolicy reports image (nothing, or a well-formed reference) all along
VersionAfter(st0, image) == IF image = Empty THEN st0.version ELSE AfterLastColon(image)
ChildrenAfter(s0, st0, image) ==
    ChildrenOfA(VersionAfter(st0, image))
    \cup (IF VersionAfter(st0, image) # Empty THEN {}
         ELSE {[o EXCEPT !.status = ZeroChildStatus] : o \in {c \in s0 : c.kind = HelmReleaseKind}})
StatusAfter(st0, image) ==
    [repository |-> ResolvedA, name |-> NameA, version |-> VersionAfter(st0, image),
     ready |-> IF VersionAfter(st0, image) = Empty THEN st0.ready ELSE Progressing]

\* C26: a complete invocation that follows invocations aborted after a part
\* of their writes (the finalizer, the first commits, no status patch), with
\* the same spec and the same report of the ImagePolicy all along, leaves
\* the children and the status of the FluxApp as one uninterrupted
\* invocation started where the first aborted one started leaves them: the
\* finalizer registered, the children of the spec, the resolved status, the
\* same result, and nothing has to be cleaned up first.
C26_CrashTolerance ==
    \A p \in AllParents :
        /\ Returned(p)
        /\ result[p].err # "crashed"
        /\ mark[p].env0 = envLeft
        => /\ result[p] = Return(VersionAfter(seen[p].status, PolicyImage) = Empty, "nil")
           /\ parent[p].finalizer
           /\ parent[p].status = StatusAfter(seen[p].status, PolicyImage)
           /\ {[o EXCEPT !.status = ZeroChildStatus] : o \in store}
                  = ChildrenAfter(mark[p].before, seen[p].status, PolicyImage)

\* a complete invocation after one that was aborted when it had written the
\* chart source and the release and not the status, and that ends with the
\* four children and the resolved status
C26_Witness ==
    /\ Returned(NameA)
    /\ mark[NameA].recover
    /\ mark[NameA].env0 = envLeft
    /\ Cardinality(mark[NameA].before) = 2
    /\ Cardinality(mark[NameA].children) = 4
    /\ seen[NameA].status.repository = Empty
    /\ result[NameA] = Return(FALSE, "nil")
    /\ parent[NameA].status = [repository |-> ResolvedA, name |-> NameA,
                               version |-> <<"1">>, ready |-> Progressing]

(***************************************************************************)
(* C27  Convergence                                                        *)
(***************************************************************************)
\* the references of the form repo:tag, with a tag after the last ":"
WellFormedImages == {v \in LatestImages : LastIndex(v, ":") > 1 /\ AfterLastColon(v) # Empty}

\* the four children of FluxApp a exist and the HelmRelease carries the
\* resolved name and the resolved version of the FluxApp
Converged ==
    /\ \A x \in ExternalObjects : Lookup(x[1], Namespace, x[2]) # {}
    /\ \E o \in Lookup(HelmReleaseKind, Namespace, NameA) :
          /\ o.spec.chart = parent[NameA].status.name
          /\ o.spec.version = parent[NameA].status.version

\* C27: for a FluxApp that is never deleted and whose repository is well
\* formed, when the ImagePolicy from some moment on keeps one well-formed
\* reference (the store's failures are bounded, the FluxApp is invoked
\* again and again), eventually the four children exist and the
\* HelmRelease's chart and version are the resolved name and version.
C27_Convergence ==
    \A v \in WellFormedImages :
        ([](parent[NameA].exists /\ ~parent[NameA].deleting) /\ <>[](PolicyImage = v))
            => <>Converged

\* what holds of the code: the same for the references with one ":" only
\* (a reference whose registry has a port is rejected by every invocation)
ConvergenceOneColon ==
    \A v \in {w \in WellFormedImages : Len(Split(w, Colon)) = 2} :
        ([](parent[NameA].exists /\ ~parent[NameA].deleting) /\ <>[](PolicyImage = v))
            => <>Converged

(***************************************************************************)
(* C28  Deletion completes                                                 *)
(***************************************************************************)
\* the update that removes the finalizer, as the invocation of p logged it
RemovalAnswered(p, e) ==
    \E i \in DOMAIN ops[p] :
        /\ ops[p][i].op = "updateApp"
        /\ ops[p][i].diff = {"finalizer-"}
        /\ ops[p][i].err = e

\* an invocation whose removal of the finalizer failed returned that error
\* and the stored FluxApp still holds the finalizer
FailedRemovalKeeps ==
    \A p \in AllParents : \A e \in {"StoreError", "Conflict", "NotFound"} :
        Returned(p) /\ RemovalAnswered(p, e)
            => /\ result[p] = Return(FALSE, e)
               /\ parent[p].exists /\ parent[p].deleting /\ parent[p].finalizer

\* C28: a FluxApp that has a deletion timestamp and holds the finalizer
\* eventually holds it no more (the failures of the update are bounded and
\* the FluxApp is invoked again and again); every invocation whose update
\* fails returns the error and leaves the finalizer in the stored FluxApp.
C28_DeletionCompletes ==
    /\ []FailedRemovalKeeps
    /\ (parent[NameA].exists /\ parent[NameA].deleting /\ parent[NameA].finalizer)
           ~> ~parent[NameA].finalizer

\* the FluxApp was deleted when its children existed, and the invocation
\* that followed has removed the finalizer
C28_Witness ==
    /\ Returned(NameA)
    /\ RemovalAnswered(NameA, "nil")
    /\ result[NameA] = Return(FALSE, "nil")
    /\ parent[NameA].exists /\ parent[NameA].deleting /\ ~parent[NameA].finalizer
    /\ Cardinality(store) = 4

(***************************************************************************)
(* C29  Finalizer monotonicity                                             *)
(***************************************************************************)
\* the finalizer state of the stored FluxApp: 0 unregistered, 1 registered,
\* 2 terminating (deletion timestamp, finalizer held), 3 removed
FinalizerState(f) ==
    IF ~f.exists THEN 3
    ELSE IF f.deleting THEN (IF f.finalizer THEN 2 ELSE 3)
    ELSE IF f.finalizer THEN 1 ELSE 0

\* C29: the finalizer state of a FluxApp only moves forward: no step adds
\* the finalizer to a FluxApp that has a deletion timestamp, and no step
\* removes it from one that has none.
C29_FinalizerMonotonic ==
    [][\A p \in AllParents :
          /\ FinalizerState(parent'[p]) >= FinalizerState(parent[p])
          /\ parent[p].exists /\ parent[p].deleting /\ ~parent[p].finalizer
                => ~parent'[p].finalizer
          /\ parent[p].exists /\ ~parent[p].deleting /\ parent[p].finalizer
                => parent'[p].exists /\ parent'[p].finalizer]_vars

\* the FluxApp was deleted between the fetch and the update that registers
\* the finalizer: the update answered Conflict and the finalizer is absent
C29_Witness ==
    /\ Returned(NameA)
    /\ \E i \in DOMAIN ops[NameA] :
          /\ ops[NameA][i].op = "updateApp"
          /\ ops[NameA][i].diff = {"finalizer+"}
          /\ ops[NameA][i].err = "Conflict"
    /\ ~seen[NameA].deleting
    /\ parent[NameA].exists /\ parent[NameA].deleting /\ ~parent[NameA].finalizer

(***************************************************************************)
(* C30  Finalizer write failure                                            *)
(***************************************************************************)
\* the update that registers the finalizer, as the invocation of p logged it
RegistrationAnswered(p, e) ==
    \E i \in DOMAIN ops[p] :
        /\ ops[p][i].op = "updateApp"
        /\ ops[p][i].diff = {"finalizer+"}
        /\ ops[p][i].err = e

\* C30: an invocation whose update that registers the finalizer failed
\* returns that error and makes no other call: no fetch, create or patch of
\* a child and no status patch; while nothing outside the reconciler
\* writes, the children and the FluxApp are as they were when it started.
C30_FinalizerWriteFailure ==
    \A p \in AllParents : \A e \in {"StoreError", "Conflict", "NotFound"} :
        RegistrationAnswered(p, e) /\ pc[p][1] # "addFinalizer"
            => /\ Returned(p)
               /\ result[p] = [requeue |-> FALSE, err |-> e]
               /\ Len(ops[p]) = 2
               /\ ops[p][1].op = "getApp" /\ ops[p][2].op = "updateApp"
               /\ mark[p].env0 = envLeft
                     => /\ store = mark[p].children
                        /\ AppOf(p, parent[p]) = seen[p]
                        /\ ~parent[p].finalizer

\* the update failed in a store that holds children: none was touched
C30_Witness ==
    /\ RegistrationAnswered(NameA, "StoreError")
    /\ Returned(NameA)
    /\ mark[NameA].env0 = envLeft
    /\ store # {}
    /\ store = mark[NameA].children

(***************************************************************************)
(* C31  Status persist failure                                             *)
(***************************************************************************)
\* the status patch of the invocation of p, its last call, answered e
StatusPatchAnswered(p, e) ==
    /\ Len(ops[p]) >= 1
    /\ ops[p][Len(ops[p])].op = "patchStatus"
    /\ ops[p][Len(ops[p])].err = e

\* the invocation returned and its status patch failed
StatusPatchFailed(p) ==
    /\ Returned(p)
    /\ \E e \in {"StoreError", "NotFound"} : StatusPatchAnswered(p, e)

\* C31: the step in which the deferred status patch runs leaves the result
\* and the error of the invocation as the chain produced them, also when
\* the patch fails; a failed patch leaves the stored status as it was, so
\* the status the invocation fetched is still the stored one when it has
\* returned, whatever it returned.
C31_PatchFailureNotSurfaced ==
    /\ [](\A p \in AllParents :
             StatusPatchFailed(p) /\ parent[p].exists => parent[p].status = seen[p].status)
    /\ [][\A p \in AllParents :
             pc[p][1] = "patchStatus" /\ pc'[p][1] = "done"
                => /\ result'[p] = result[p]
                   /\ ops'[p][Len(ops'[p])].err # "nil" => parent'[p] = parent[p]]_vars

\* the chain ran to its end and built a status, the patch failed: the
\* invocation returned success without requeue and the stored status is
\* still the fetched one
C31_Witness ==
    /\ StatusPatchFailed(NameA)
    /\ StatusPatchAnswered(NameA, "StoreError")
    /\ result[NameA] = Return(FALSE, "nil")
    /\ Committed(NameA, HelmReleaseKind)
    /\ parent[NameA].exists
    /\ parent[NameA].status = seen[NameA].status
    /\ app[NameA].status # parent[NameA].status

(***************************************************************************)
(* C32  Write frame                                                        *)
(***************************************************************************)
SourceC == <<"g","c","r","-","i","o","-","q">>

\* the name of the child of kind k of FluxApp p, for the spec the invocation
\* fetched
FrameName(k, p) ==
    CASE k \in {ImageRepositoryKind, ImagePolicyKind} -> p \o <<"-","c","h","a","r","t">>
      [] k = HelmRepositoryKind -> IF seen[p].spec.repository = RepoC THEN SourceC ELSE SourceA
      [] k = HelmReleaseKind -> p

\* the HelmRepository created for the repository oci://gcr.io/p/a is, while
\* it is in the store, as the reconciler wrote it
OldSourceKept ==
    \A o \in Lookup(HelmRepositoryKind, Namespace, SourceA) :
        o.spec = [url |-> ResolvedA, type |-> "oci", provider |-> "gcp"] /\ o.owners = {NameA}

\* C32: a step that is not a write of the user or of a Flux controller
\* leaves the spec and the deletion timestamp of the FluxApp as they are,
\* deletes no child, writes no child's status, and creates or changes only
\* children that carry the names of the four children of the FluxApp in its
\* namespace; so the HelmRepository created for an earlier repository stays
\* in the store unchanged when the repository of the FluxApp has changed.
C32_WriteFrame ==
    /\ []OldSourceKept
    /\ [][envLeft' = envLeft =>
             /\ \A p \in AllParents :
                   parent'[p].exists =>
                       /\ parent'[p].spec = parent[p].spec
                       /\ parent'[p].deleting = parent[p].deleting
                       /\ parent'[p].ns = parent[p].ns
             /\ \A o \in store : \E n \in store' : Key(n) = Key(o) /\ n.status = o.status
             /\ \A n \in store' \ store :
                   Key(n) = <<n.kind, Namespace, FrameName(n.kind, NameA)>>]_vars

\* the repository of the FluxApp has changed and an invocation has created
\* the HelmRepository of the new one: the one of the old is still there
C32_Witness ==
    /\ Returned(NameA)
    /\ seen[NameA].spec.repository = RepoC
    /\ Lookup(HelmRepositoryKind, Namespace, SourceC) # {}
    /\ Lookup(HelmRepositoryKind, Namespace, SourceA) # {}
    /\ OldSourceKept

====
